---- MODULE Spec2Model ----
(***************************************************************************)
(* Catalog browser: the legacy single-file application (src/unnamed/       *)
(* part_000: loadCatalog + buildAttributeIndex) and the Catalog module     *)
(* with its startup handler and edit forms (src/app.js, src/unnamed/       *)
(* part_001).                                                              *)
(*                                                                         *)
(* JavaScript values are modelled as follows.  A string-valued field holds *)
(* a TLA+ string; a field that is absent (undefined) holds Undefined.      *)
(* Booleans held in data are JTrue / JFalse so that they can sit in the    *)
(* same field as Undefined.  Object references are modelled by the         *)
(* position of the record in the array that owns it.                       *)
(***************************************************************************)
EXTENDS Integers, Sequences, FiniteSets, TLC

Undefined == "<undefined>"
JTrue == "<true>"
JFalse == "<false>"

\* JavaScript truthiness of a string-or-undefined field.
Truthy(v) == v # Undefined /\ v # ""

\* a || b on string-or-undefined operands.
Or(a, b) == IF Truthy(a) THEN a ELSE b

\* ---- bounds of the legacy model ----
MaxDatasets == 2
MaxDecls == 2

VARIABLES
    response,        \* what fetch(CATALOG_URL) will deliver (environment)
    legacyPc,        \* position inside the legacy loadCatalog()
    catalog,         \* part_000: let catalog = []
    attributeIndex,  \* part_000: let attributeIndex = {}  (entries in insertion order)
    di, ai,          \* forEach positions inside buildAttributeIndex
    listHtml         \* what datasetList.innerHTML shows

VARIABLES
    legacyDetail,    \* part_000: what the attributeDetail panel shows
    builds,          \* how many times buildAttributeIndex() was entered
    firstIndex       \* the index the first build left (kept for comparison)

sessionVars == <<legacyDetail, builds, firstIndex>>
legacyVars == <<response, legacyPc, catalog, attributeIndex, di, ai, listHtml, sessionVars>>

VARIABLES
    family,                \* which documents the server may deliver (environment)
    calls,                 \* the invocations of Catalog.loadCatalog()
    fetchCount,            \* number of fetch(CATALOG_URL) issued so far
    docs,                  \* docs[c]: the catalog object built by invocation c
    cache,                 \* Catalog: let cache = null
    indexesBuilt,          \* Catalog: let indexesBuilt = false
    attributeById,         \* Catalog: let attributeById = {}
    objectById,            \* Catalog: let objectById = {}
    objectsByAttributeId,  \* Catalog: let objectsByAttributeId = {}
    handler,               \* position of the DOMContentLoaded handler
    panel                  \* contents of objectDetailEl and attributeDetailEl

VARIABLES
    tab,                      \* which of objectsView / attributesView is shown
    lastSelectedObjectId,     \* handler: let lastSelectedObjectId = null
    lastSelectedAttributeId,  \* handler: let lastSelectedAttributeId = null
    lists,                    \* the buttons of objectListEl and attributeListEl
    issue                     \* the issue that window.open was last given

indexVars == <<indexesBuilt, attributeById, objectById, objectsByAttributeId>>
uiVars == <<tab, lastSelectedObjectId, lastSelectedAttributeId, lists, issue>>
catalogVars ==
    <<family, calls, fetchCount, docs, cache, indexVars, handler, panel, uiVars>>

\* ---------------------------------------------------------------------
\* Inputs of the legacy model: inline attribute declarations and datasets
\* ---------------------------------------------------------------------
NoExample == [t |-> "undefined"]
NoDomain == [t |-> "undefined"]

Decl(n, ty, de, nu) ==
    [name |-> n, label |-> Undefined, type |-> ty, description |-> de,
     nullable |-> nu, example |-> NoExample, domain |-> NoDomain]

AttrNames == {"X", "Y"}
TypeValues == {Undefined, "", "float", "string"}
DescValues == {Undefined, "area", "size"}

\* Declarations that vary in type and description, declarations that vary in
\* nullable, and two declarations without a name (no name member, and an
\* empty name) that state every other member.
Nameless(n) ==
    [Decl(n, "string", "area", JFalse) EXCEPT
        !.example = [t |-> "string", v |-> "1"],
        !.domain = [t |-> "array", v |-> <<[t |-> "string", v |-> "1"]>>]]

MergeDecls ==
    {Decl(n, ty, de, Undefined) : n \in AttrNames, ty \in TypeValues, de \in DescValues}
    \cup {Decl(n, Undefined, Undefined, nu) : n \in AttrNames, nu \in {JTrue, JFalse}}
    \cup {Nameless(Undefined), Nameless("")}

\* An absent member of a domain entry, and a domain entry that is an object
\* (an array is an object without these members).
NoValue == [t |-> "undefined"]
DomainObject(value, code, label) ==
    [t |-> "object", value |-> value, code |-> code, label |-> label,
     description |-> Undefined]

\* Entries of a domain array: bare scalars, objects with value or code and
\* with or without a label, and entries of other shapes.
MaxDomain == 2
Str(x) == [t |-> "string", v |-> x]
DomainEntries ==
    {Str("1"), [t |-> "number", v |-> "1"],
     DomainObject(Str("1"), NoValue, "Yes"),
     DomainObject(Str("1"), NoValue, "yes"),
     DomainObject(NoValue, Str("1"), "Yes"),
     DomainObject(Str("2"), NoValue, Undefined),
     DomainObject(Str("a|b"), NoValue, "c"),
     DomainObject(Str("a"), NoValue, "b|c"),
     [t |-> "boolean", v |-> "true"],
     [t |-> "null"],
     [t |-> "array", v |-> "[]"]}
Domains == UNION {[1..n -> DomainEntries] : n \in 0..MaxDomain}

\* Declarations of X that differ in their domain.
DomainDecls ==
    {[Decl("X", "string", Undefined, Undefined) EXCEPT !.domain = [t |-> "array", v |-> d]] :
        d \in Domains}

\* Declarations that vary in every member the build reads.
RebuildDecls ==
    {[Decl(n, ty, Undefined, nu) EXCEPT !.example = e, !.domain = d] :
        n \in AttrNames, ty \in {"", "float"}, nu \in {Undefined, JFalse},
        e \in {NoExample, [t |-> "null"], Str("1"), [t |-> "number", v |-> "1"],
                Str("2")},
        d \in {NoDomain,
               [t |-> "array",
                v |-> <<Str("1"), DomainObject(Str("1"), NoValue, "Yes"), Str("1")>>]}}

\* Dataset ids are unique (spec section 3); every other dataset has no title.
DatasetIdAt(i) == <<"parks", "trails", "roads", "lakes", "rivers">>[i]
DatasetTitleAt(i) == IF i % 2 = 1 THEN Undefined ELSE "Title"

RECURSIVE SumTo(_, _)
SumTo(sizes, n) == IF n = 0 THEN 0 ELSE sizes[n] + SumTo(sizes, n - 1)

\* The catalog whose i-th dataset declares sizes[i] attributes, taken in
\* order from flat.  A dataset that declares nothing has no attributes key.
MakeCatalog(sizes, flat) ==
    [i \in 1..Len(sizes) |->
        [id |-> DatasetIdAt(i), title |-> DatasetTitleAt(i),
         attributes |->
            IF sizes[i] = 0 THEN [t |-> "undefined"]
            ELSE [t |-> "array",
                  v |-> [j \in 1..sizes[i] |-> flat[SumTo(sizes, i - 1) + j]]]]]

\* Responses of the catalog fetch: a failure status, a body that is not
\* JSON, a body of another top-level type, or an array of datasets.
IsResponseOver(r, decls) ==
    \/ r = [ok |-> FALSE, status |-> 404, body |-> [t |-> "unparseable"]]
    \/ \E b \in {"unparseable", "object", "number", "null"} :
            r = [ok |-> TRUE, status |-> 200, body |-> [t |-> b]]
    \/ \E n \in 0..MaxDatasets :
        \E sizes \in [1..n -> 0..MaxDecls] :
            /\ SumTo(sizes, n) <= MaxDecls
            /\ \E flat \in [1..SumTo(sizes, n) -> decls] :
                    r = [ok |-> TRUE, status |-> 200,
                         body |-> [t |-> "array", v |-> MakeCatalog(sizes, flat)]]

\* ---------------------------------------------------------------------
\* part_000 buildAttributeIndex
\* ---------------------------------------------------------------------
HasKey(index, key) == \E k \in 1..Len(index) : index[k].name = key
KeyPos(index, key) == CHOOSE k \in 1..Len(index) : index[k].name = key

NewEntry(attr) ==
    [name |-> attr.name,
     label |-> Or(attr.label, attr.name),
     type |-> Or(attr.type, ""),
     description |-> Or(attr.description, ""),
     nullable |-> attr.nullable,
     examples |-> [set |-> <<>>],
     datasets |-> <<>>,
     definitions |-> <<>>,
     domainValues |-> <<>>]

\* Mutation: the last non-empty type wins.
MergeTypeLastWins(entry, attr) ==
    IF Truthy(attr.type) THEN attr.type ELSE entry.type

MergeType(entry, attr) ==
    IF ~Truthy(entry.type) /\ Truthy(attr.type) THEN attr.type ELSE entry.type

MergeDescription(entry, attr) ==
    IF ~Truthy(entry.description) /\ Truthy(attr.description)
    THEN attr.description ELSE entry.description

\* Mutation: every stated nullable overwrites the canonical one.
MergeNullableOverwrite(entry, attr) ==
    IF attr.nullable # Undefined THEN attr.nullable ELSE entry.nullable

MergeNullable(entry, attr) ==
    IF attr.nullable = JFalse THEN JFalse ELSE entry.nullable

DatasetTitle(dataset) == Or(dataset.title, Or(dataset.id, "(unnamed dataset)"))

\* String(v) of a tagged scalar; a number carries its decimal digits.
ToStr(x) ==
    CASE x.t = "string" -> x.v
      [] x.t = "number" -> x.v
      [] x.t = "null" -> "null"
      [] x.t = "boolean" -> x.v
      [] OTHER -> "undefined"

SetAdd(s, e) == IF \E k \in 1..Len(s) : s[k] = e THEN s ELSE Append(s, e)

AddExampleAppend(examples, attr) ==
    IF attr.example.t \notin {"undefined", "null"}
    THEN [set |-> Append(examples.set, ToStr(attr.example))]
    ELSE examples

AddExample(examples, attr) ==
    IF attr.example.t \notin {"undefined", "null"}
    THEN [set |-> SetAdd(examples.set, ToStr(attr.example))]
    ELSE examples

\* The triple of an entry v with typeof v === 'object':
\* val = 'value' in v ? v.value : ''.
DomainTriple(v) ==
    LET val == v.value
        valTruthy == val.t \notin {"undefined", "null"}
                     /\ ~(val.t = "string" /\ val.v = "")
                     /\ ~(val.t = "number" /\ val.v = "0")
    IN <<[value |-> IF val.t \notin {"undefined", "null"} THEN ToStr(val) ELSE "",
          label |-> Or(v.label, IF valTruthy THEN ToStr(val) ELSE ""),
          description |-> Or(v.description, "")]>>

\* One entry of attr.domain, as a sequence of zero or one normalized triples.
DomainValue(v) ==
    IF v.t \in {"string", "number"}
    THEN <<[value |-> ToStr(v), label |-> ToStr(v), description |-> ""]>>
    ELSE IF v.t \in {"object", "array"}
    THEN DomainTriple(IF v.t = "array" THEN DomainObject(NoValue, NoValue, Undefined) ELSE v)
    ELSE <<>>

RECURSIVE DomainValues(_)
DomainValues(dom) ==
    IF Len(dom) = 0 THEN <<>> ELSE DomainValue(Head(dom)) \o DomainValues(Tail(dom))

AddDomain(domainValues, attr) ==
    IF attr.domain.t = "array" THEN domainValues \o DomainValues(attr.domain.v)
    ELSE domainValues

PushDataset(datasets, dataset) ==
    Append(datasets, [id |-> dataset.id, title |-> DatasetTitle(dataset)])

\* Mutation: a declaration that states neither type nor description leaves
\* no definition.
PushDefinitionIfStated(definitions, dataset, attr) ==
    IF Truthy(attr.type) \/ Truthy(attr.description)
    THEN Append(definitions,
            [datasetId |-> dataset.id,
             datasetTitle |-> DatasetTitle(dataset),
             type |-> Or(attr.type, ""),
             description |-> Or(attr.description, "")])
    ELSE definitions

PushDefinition(definitions, dataset, attr) ==
    Append(definitions,
        [datasetId |-> dataset.id,
         datasetTitle |-> DatasetTitle(dataset),
         type |-> Or(attr.type, ""),
         description |-> Or(attr.description, "")])

\* The body of attrs.forEach for one declaration with a name.
MergeDeclaration(index, dataset, attr) ==
    LET created == IF HasKey(index, attr.name) THEN index
                   ELSE Append(index, NewEntry(attr))
        k == KeyPos(created, attr.name)
        entry == created[k]
        merged ==
            [entry EXCEPT
                !.type = MergeType(entry, attr),
                !.description = MergeDescription(entry, attr),
                !.nullable = MergeNullable(entry, attr),
                !.examples = AddExample(entry.examples, attr),
                !.datasets = PushDataset(entry.datasets, dataset),
                !.definitions = PushDefinition(entry.definitions, dataset, attr),
                !.domainValues = AddDomain(entry.domainValues, attr)]
    IN [created EXCEPT ![k] = merged]

RECURSIVE DedupeDomain(_, _)
DedupeDomain(vals, seen) ==
    IF Len(vals) = 0 THEN <<>>
    ELSE LET v == Head(vals)
             key == v.value \o "|" \o Or(v.label, "")
         IN IF key \in seen THEN DedupeDomain(Tail(vals), seen)
            ELSE <<v>> \o DedupeDomain(Tail(vals), seen \cup {key})

FinalizeEntry(a) ==
    [a EXCEPT !.examples = a.examples.set,
              !.domainValues = DedupeDomain(a.domainValues, {})]

\* dataset.attributes || []
AttrsOf(dataset) ==
    IF dataset.attributes.t = "array" THEN dataset.attributes.v ELSE <<>>

\* The position of the first declaration at or after (d, a) in the nested
\* forEach loops, or <<Len(cat) + 1, 1>> when the loops are exhausted.
RECURSIVE SeekDecl(_, _, _)
SeekDecl(cat, d, a) ==
    IF d > Len(cat) THEN <<d, 1>>
    ELSE IF a <= Len(AttrsOf(cat[d])) THEN <<d, a>>
    ELSE SeekDecl(cat, d + 1, 1)

\* ---------------------------------------------------------------------
\* part_000 loadCatalog: fetch, shape check, index build, first render
\* ---------------------------------------------------------------------
\* The attributeDetail panel while it has the class hidden.
HiddenDetail ==
    [shown |-> FALSE, name |-> "", hasTypeConflict |-> FALSE,
     hasDescConflict |-> FALSE, primaryType |-> "", conflictHtml |-> FALSE]

\* Mutation: a build continues from the index it finds (its examples being
\* sets again).
StartIndexKept(index) ==
    [k \in 1..Len(index) |-> [index[k] EXCEPT !.examples = [set |-> index[k].examples]]]

\* attributeIndex = {} at the start of buildAttributeIndex.
StartIndex(index) == <<>>

LegacyInitOver(decls) ==
    /\ IsResponseOver(response, decls)
    /\ legacyPc = "fetching"
    /\ catalog = <<>>
    /\ attributeIndex = <<>>
    /\ di = 1
    /\ ai = 1
    /\ listHtml = ""
    /\ legacyDetail = HiddenDetail
    /\ builds = 0
    /\ firstIndex = <<>>

\* await fetch(...) delivers a response that is not ok.
LegacyHttpError ==
    /\ legacyPc = "fetching"
    /\ ~response.ok
    /\ listHtml' = "Error loading catalog (HTTP)."
    /\ legacyPc' = "returned"
    /\ UNCHANGED <<response, catalog, attributeIndex, di, ai>>
    /\ UNCHANGED sessionVars
    /\ UNCHANGED catalogVars

\* await fetch(...) delivers an ok response; res.json() is awaited next.
LegacyFetchOk ==
    /\ legacyPc = "fetching"
    /\ response.ok
    /\ legacyPc' = "parsing"
    /\ UNCHANGED <<response, catalog, attributeIndex, di, ai, listHtml>>
    /\ UNCHANGED sessionVars
    /\ UNCHANGED catalogVars

\* res.json() rejects: the catch block reports it.
LegacyJsonThrows ==
    /\ legacyPc = "parsing"
    /\ response.body.t = "unparseable"
    /\ listHtml' = "Error loading catalog (check console)."
    /\ legacyPc' = "returned"
    /\ UNCHANGED <<response, catalog, attributeIndex, di, ai>>
    /\ UNCHANGED sessionVars
    /\ UNCHANGED catalogVars

\* The parsed value is not an array.
LegacyNotArray ==
    /\ legacyPc = "parsing"
    /\ response.body.t \notin {"unparseable", "array"}
    /\ listHtml' = "catalog.json should be a JSON array."
    /\ legacyPc' = "returned"
    /\ UNCHANGED <<response, catalog, attributeIndex, di, ai>>
    /\ UNCHANGED sessionVars
    /\ UNCHANGED catalogVars

\* catalog = raw; buildAttributeIndex() starts with an empty index.
LegacyAccept ==
    /\ legacyPc = "parsing"
    /\ response.body.t = "array"
    /\ catalog' = response.body.v
    /\ attributeIndex' = StartIndex(attributeIndex)
    /\ builds' = builds + 1
    /\ di' = SeekDecl(response.body.v, 1, 1)[1]
    /\ ai' = SeekDecl(response.body.v, 1, 1)[2]
    /\ legacyPc' = "building"
    /\ UNCHANGED <<response, listHtml, legacyDetail, firstIndex>>
    /\ UNCHANGED catalogVars

VisitAttrAll ==
    /\ legacyPc = "building"
    /\ di <= Len(catalog)
    /\ LET dataset == catalog[di]
           attr == AttrsOf(dataset)[ai]
           next == SeekDecl(catalog, di, ai + 1)
       IN /\ attributeIndex' = MergeDeclaration(attributeIndex, dataset, attr)
          /\ di' = next[1]
          /\ ai' = next[2]
    /\ UNCHANGED <<response, legacyPc, catalog, listHtml>>
    /\ UNCHANGED sessionVars
    /\ UNCHANGED catalogVars

\* One call of the attrs.forEach callback.
VisitAttr ==
    /\ legacyPc = "building"
    /\ di <= Len(catalog)
    /\ LET dataset == catalog[di]
           attr == AttrsOf(dataset)[ai]
           next == SeekDecl(catalog, di, ai + 1)
       IN /\ attributeIndex' =
                IF ~Truthy(attr.name) THEN attributeIndex
                ELSE MergeDeclaration(attributeIndex, dataset, attr)
          /\ di' = next[1]
          /\ ai' = next[2]
    /\ UNCHANGED <<response, legacyPc, catalog, listHtml>>
    /\ UNCHANGED sessionVars
    /\ UNCHANGED catalogVars

\* The final clean-up pass, then the first render of the lists.
Finalize ==
    /\ legacyPc = "building"
    /\ di > Len(catalog)
    /\ attributeIndex' = [k \in 1..Len(attributeIndex) |-> FinalizeEntry(attributeIndex[k])]
    /\ listHtml' = IF Len(catalog) = 0 THEN "No datasets match your search." ELSE "cards"
    /\ legacyPc' = "returned"
    /\ UNCHANGED <<response, catalog, di, ai>>
    /\ UNCHANGED sessionVars
    /\ UNCHANGED catalogVars

\* ---------------------------------------------------------------------
\* part_000 showAttributeDetail: conflicts derived from definitions
\* ---------------------------------------------------------------------
TypeSet(a) == {a.definitions[k].type : k \in 1..Len(a.definitions)} \ {"", Undefined}
DescSet(a) == {a.definitions[k].description : k \in 1..Len(a.definitions)} \ {"", Undefined}
HasTypeConflict(a) == Cardinality(TypeSet(a)) > 1
HasDescConflict(a) == Cardinality(DescSet(a)) > 1

\* typeSet.size === 1 ? Array.from(typeSet)[0] : 'Multiple (conflict - see below)'
PrimaryType(a) ==
    IF Cardinality(TypeSet(a)) = 1 THEN CHOOSE t \in TypeSet(a) : TRUE
    ELSE "Multiple (conflict - see below)"

\* A click on an attribute card, or an #attribute=name route: the panel is
\* filled from the index entry; a name the index does not hold changes nothing.
LegacyShowAttributeDetail(name) ==
    /\ legacyPc = "returned"
    /\ builds > 0
    /\ legacyDetail' =
            IF ~HasKey(attributeIndex, name) THEN legacyDetail
            ELSE LET a == attributeIndex[KeyPos(attributeIndex, name)]
                 IN [shown |-> TRUE,
                     name |-> a.name,
                     hasTypeConflict |-> HasTypeConflict(a),
                     hasDescConflict |-> HasDescConflict(a),
                     primaryType |-> PrimaryType(a),
                     conflictHtml |-> HasTypeConflict(a) \/ HasDescConflict(a)]
    /\ UNCHANGED <<response, legacyPc, catalog, attributeIndex, di, ai, listHtml,
                   builds, firstIndex>>
    /\ UNCHANGED catalogVars

\* ---------------------------------------------------------------------
\* part_000 buildAttributeIndex applied again to the same catalog
\* ---------------------------------------------------------------------
MaxBuilds == 2

\* buildAttributeIndex() is entered again once the previous build is over.
Rebuild ==
    /\ legacyPc = "returned"
    /\ 0 < builds
    /\ builds < MaxBuilds
    /\ firstIndex' = IF builds = 1 THEN attributeIndex ELSE firstIndex
    /\ attributeIndex' = StartIndex(attributeIndex)
    /\ builds' = builds + 1
    /\ di' = SeekDecl(catalog, 1, 1)[1]
    /\ ai' = SeekDecl(catalog, 1, 1)[2]
    /\ legacyPc' = "building"
    /\ UNCHANGED <<response, catalog, listHtml, legacyDetail>>
    /\ UNCHANGED catalogVars


\* ---------------------------------------------------------------------
\* Inputs of the Catalog module: catalog documents
\* ---------------------------------------------------------------------
MaxObjects == 2
MaxRefs == 2
MaxAttrs == 2
MaxCalls == 2

JNull == [t |-> "null"]
JUndefined == [t |-> "undefined"]
\* A member that a plain {} inherits from Object.prototype.
Inherited == [t |-> "inherited"]
ObjectPrototypeKeys == {"constructor", "toString", "valueOf", "hasOwnProperty"}

ObjRef(g, i) == [t |-> "ref", k |-> "objects", g |-> g, i |-> i]
AttrRef(g, i) == [t |-> "ref", k |-> "attributes", g |-> g, i |-> i]
DocRef(g) == [t |-> "ref", k |-> "catalog", g |-> g, i |-> 0]

\* Ids that attribute_ids may list: two ordinary ids and one that names a
\* member of Object.prototype.
RefIds == {"a", "b", "constructor"}
AttrIdValues == {"a", "b", Undefined}
IdSchemes == {"unique", "same", "none"}

ObjectIdAt(scheme, i) ==
    CASE scheme = "unique" -> <<"o1", "o2", "o3", "o4">>[i]
      [] scheme = "same" -> "o1"
      [] OTHER -> Undefined

\* The objects array whose i-th record lists sizes[i] attribute ids, taken in
\* order from flat.  A record that lists nothing has no attribute_ids key.
MakeObjects(scheme, sizes, flat) ==
    [i \in 1..Len(sizes) |->
        [id |-> ObjectIdAt(scheme, i),
         attribute_ids |->
            IF sizes[i] = 0 THEN JUndefined
            ELSE [t |-> "array",
                  v |-> [j \in 1..sizes[i] |-> flat[SumTo(sizes, i - 1) + j]]]]]

ObjectArrays ==
    UNION { UNION { UNION {
        {MakeObjects(scheme, sizes, flat) : flat \in [1..SumTo(sizes, n) -> RefIds]}
        : sizes \in {z \in [1..n -> 0..MaxRefs] : SumTo(z, n) <= MaxRefs}}
        : scheme \in IdSchemes}
        : n \in 0..MaxObjects}

AttributeArrays ==
    UNION {{[j \in 1..n |-> [id |-> ids[j]]] : ids \in [1..n -> AttrIdValues]}
            : n \in 0..MaxAttrs}

JArray(v) == [t |-> "array", v |-> v]
ObjectBody(objects, datasets, attributes) ==
    [t |-> "object", objects |-> objects, datasets |-> datasets, attributes |-> attributes]

\* The attributes member of shape (b): an array, or absent.
AttributesMembers == {JArray(x) : x \in AttributeArrays} \cup {JUndefined}

\* Shape (a): a bare array of dataset records with embedded attributes.
ArrayBodies ==
    {JArray(<<>>),
     JArray(<<[id |-> "parks", attributes |-> JArray(<<[name |-> "area_sqkm"]>>)]>>)}

\* Bodies that are not a catalog: not JSON at all, or JSON of another type.
OtherBodies == {[t |-> "unparseable"], JNull, [t |-> "number"]}

SmallObjectBodies ==
    {ObjectBody(JUndefined, JArray(<<[id |-> "o1", attribute_ids |-> JUndefined]>>),
                JUndefined),
     ObjectBody(JArray(<<[id |-> "o1", attribute_ids |-> JArray(<<"a">>)]>>),
                JUndefined, JArray(<<[id |-> "a"]>>)),
     ObjectBody(JArray(<<[id |-> "o2", attribute_ids |-> JArray(<<"a", "b">>)]>>),
                JUndefined, JArray(<<[id |-> "a"], [id |-> "b"]>>)),
     ObjectBody(JArray(<<[id |-> "o3", attribute_ids |-> JArray(<<"a", "constructor">>)]>>),
                JUndefined, JArray(<<[id |-> "a"]>>))}

\* Documents whose records carry the fields that the lists search and the
\* edit forms show.
UiObjects ==
    <<[id |-> "o1", title |-> "Parks", topics |-> JArray(<<"land">>),
       keywords |-> JUndefined, attribute_ids |-> JArray(<<"a">>)],
      [id |-> "o2", title |-> Undefined, topics |-> JUndefined,
       keywords |-> JArray(<<"fire">>), attribute_ids |-> JArray(<<"a", "b">>)]>>
\* One entry of an attribute's values: an object whose keys come in an order.
ValueObject(keys, code, label) ==
    [t |-> "object", keys |-> keys, code |-> code, label |-> label]
UiAttributes ==
    <<[id |-> "a", label |-> "Area", values |-> JArray(<<>>)],
      [id |-> "b", label |-> Undefined,
       values |-> JArray(<<ValueObject(<<"code", "label">>, "x", "Ex")>>)]>>
UiBodies ==
    {ObjectBody(JArray(UiObjects), JUndefined, JArray(UiAttributes)),
     ObjectBody(JArray(SubSeq(UiObjects, 2, 2)), JUndefined, JArray(<<>>))}

\* Bodies that are drawn one by one; shape (b) documents are drawn member by
\* member in JsonSettles.
PlainBodies(fam) ==
    CASE fam = "catalog" -> OtherBodies \cup ArrayBodies
      [] fam = "ui" -> OtherBodies \cup UiBodies
      [] OTHER -> OtherBodies \cup SmallObjectBodies

\* ---------------------------------------------------------------------
\* part_001 Catalog: loadCatalog, buildIndexes and the lookups
\* ---------------------------------------------------------------------
\* raw.objects / raw.datasets / raw.attributes of a parsed body that is not null.
RawField(raw, f) == IF raw.t = "object" THEN raw[f] ELSE JUndefined

Normalize(raw) ==
    [objects |->
        IF RawField(raw, "objects").t = "array" THEN RawField(raw, "objects").v
        ELSE IF RawField(raw, "datasets").t = "array" THEN RawField(raw, "datasets").v
        ELSE <<>>,
     attributes |->
        IF RawField(raw, "attributes").t = "array" THEN RawField(raw, "attributes").v
        ELSE <<>>,
     raw |-> raw]

TablePutKeep(table, key, value) ==
    IF key \in DOMAIN table THEN table
    ELSE (key :> value) @@ table

\* table[key] = value on a plain object.
TablePut(table, key, value) ==
    IF key \in DOMAIN table THEN [table EXCEPT ![key] = value]
    ELSE (key :> value) @@ table

\* table[key] on a plain object: an own property, else a member inherited
\* from Object.prototype, else undefined.
TableGet(table, key) ==
    IF key \in DOMAIN table THEN table[key]
    ELSE IF key \in ObjectPrototypeKeys THEN Inherited
    ELSE JUndefined

EmptyTable == [key \in {} |-> JUndefined]

\* (cache.attributes || []).forEach(a => { if (a && a.id) attributeById[a.id] = a })
RECURSIVE IndexAttributes(_, _, _, _)
IndexAttributes(table, g, attributes, j) ==
    IF j > Len(attributes) THEN table
    ELSE IndexAttributes(
            IF Truthy(attributes[j].id) THEN TablePut(table, attributes[j].id, AttrRef(g, j))
            ELSE table,
            g, attributes, j + 1)

\* (obj.attribute_ids || []).forEach(attrId => { ... push(obj) }): the push
\* raises when objectsByAttributeId[attrId] is an inherited member.
RECURSIVE PushRefs(_, _, _, _)
PushRefs(acc, ref, ids, j) ==
    IF j > Len(ids) THEN acc
    ELSE LET cur == TableGet(acc.table, ids[j])
         IN IF cur = Inherited THEN [acc EXCEPT !.threw = TRUE]
            ELSE PushRefs(
                    [acc EXCEPT !.table =
                        TablePut(acc.table, ids[j],
                            IF cur = JUndefined THEN JArray(<<ref>>)
                            ELSE JArray(Append(cur.v, ref)))],
                    ref, ids, j + 1)

IdsOf(obj) == IF obj.attribute_ids.t = "array" THEN obj.attribute_ids.v ELSE <<>>

\* (cache.objects || []).forEach(obj => { ... })
RECURSIVE IndexObjects(_, _, _, _)
IndexObjects(acc, g, objects, i) ==
    IF i > Len(objects) THEN acc
    ELSE LET obj == objects[i]
             byId == IF Truthy(obj.id) THEN TablePut(acc.objectById, obj.id, ObjRef(g, i))
                     ELSE acc.objectById
             pushed == PushRefs([table |-> acc.objectsByAttributeId, threw |-> FALSE],
                                ObjRef(g, i), IdsOf(obj), 1)
             next == [objectById |-> byId,
                      objectsByAttributeId |-> pushed.table,
                      threw |-> pushed.threw]
         IN IF pushed.threw THEN next ELSE IndexObjects(next, g, objects, i + 1)

\* buildIndexes() when it does not return early: the three tables it leaves
\* behind and whether it raised before setting indexesBuilt.
BuildIndexes(g, cat) ==
    LET built == IndexObjects(
            [objectById |-> EmptyTable, objectsByAttributeId |-> EmptyTable,
             threw |-> FALSE],
            g, cat.objects, 1)
    IN [attributeById |-> IndexAttributes(EmptyTable, g, cat.attributes, 1),
        objectById |-> built.objectById,
        objectsByAttributeId |-> built.objectsByAttributeId,
        threw |-> built.threw]

\* The record a reference points to.
Deref(r) == docs[r.g][r.k][r.i]

GetAttributeById(id) ==
    LET x == TableGet(attributeById, id) IN IF x = JUndefined THEN JNull ELSE x

GetObjectById(id) ==
    LET x == TableGet(objectById, id) IN IF x = JUndefined THEN JNull ELSE x

\* obj.attribute_ids.map(id => attributeById[id]).filter(Boolean)
RECURSIVE MapFilter(_)
MapFilter(ids) ==
    IF Len(ids) = 0 THEN <<>>
    ELSE LET x == TableGet(attributeById, Head(ids))
         IN (IF x = JUndefined THEN <<>> ELSE <<x>>) \o MapFilter(Tail(ids))

GetAttributesForObject(obj) ==
    IF obj.t # "ref" THEN <<>>
    ELSE IF Deref(obj).attribute_ids.t # "array" THEN <<>>
    ELSE MapFilter(Deref(obj).attribute_ids.v)

\* objectsByAttributeId[attrId] || []
GetObjectsForAttribute(attrId) ==
    LET x == TableGet(objectsByAttributeId, attrId)
    IN IF x = JUndefined THEN JArray(<<>>) ELSE x

Idle == [pc |-> "idle", result |-> JUndefined, error |-> "", raw |-> JUndefined]
NoDoc == [objects |-> <<>>, attributes |-> <<>>, raw |-> JUndefined]
NoPanel == [view |-> "none"]
NoIssue == [kind |-> "none"]
NullId == "<null>"
NoLists == [objects |-> <<>>, attributes |-> <<>>, text |-> ""]

CatalogInit(fam, n) ==
    /\ family = [bodies |-> fam, callers |-> n]
    /\ calls = [c \in 1..n |-> Idle]
    /\ fetchCount = 0
    /\ docs = [c \in 1..n |-> NoDoc]
    /\ cache = JNull
    /\ indexesBuilt = FALSE
    /\ attributeById = EmptyTable
    /\ objectById = EmptyTable
    /\ objectsByAttributeId = EmptyTable
    /\ handler = "waiting"
    /\ panel = [objectDetail |-> NoPanel, attributeDetail |-> NoPanel]
    /\ tab = "objects"
    /\ lastSelectedObjectId = NullId
    /\ lastSelectedAttributeId = NullId
    /\ lists = NoLists
    /\ issue = NoIssue

\* Legacy variables while the Catalog module is the program under study.
LegacyIdle ==
    /\ response = [ok |-> FALSE, status |-> 0, body |-> [t |-> "unparseable"]]
    /\ legacyPc = "unused"
    /\ catalog = <<>>
    /\ attributeIndex = <<>>
    /\ di = 1
    /\ ai = 1
    /\ listHtml = ""
    /\ legacyDetail = HiddenDetail
    /\ builds = 0
    /\ firstIndex = <<>>

\* Catalog.loadCatalog() is invoked: the cached catalog is returned, or a
\* fetch is issued and awaited.
Call(c) ==
    /\ calls[c].pc = "idle"
    /\ \A b \in 1..(c - 1) : calls[b].pc # "idle"
    /\ IF cache # JNull
       THEN /\ calls' = [calls EXCEPT ![c] = [@ EXCEPT !.pc = "returned", !.result = cache]]
            /\ UNCHANGED fetchCount
       ELSE /\ calls' = [calls EXCEPT ![c] = [@ EXCEPT !.pc = "awaitFetch"]]
            /\ fetchCount' = fetchCount + 1
    /\ UNCHANGED <<family, docs, cache, indexVars, handler, panel, uiVars>>
    /\ UNCHANGED legacyVars

\* await fetch(CATALOG_URL) settles: the request fails, or a response with a
\* failure status or a success status arrives.
FetchSettles(c) ==
    /\ calls[c].pc = "awaitFetch"
    /\ \E outcome \in {"network", "status", "ok"} :
        calls' = [calls EXCEPT ![c] =
            CASE outcome = "network" ->
                    [@ EXCEPT !.pc = "rejected", !.error = "TypeError: Failed to fetch"]
              [] outcome = "status" ->
                    [@ EXCEPT !.pc = "rejected", !.error = "Failed to load catalog.json"]
              [] OTHER -> [@ EXCEPT !.pc = "awaitJson"]]
    /\ UNCHANGED <<family, fetchCount, docs, cache, indexVars, handler, panel, uiVars>>
    /\ UNCHANGED legacyVars

\* The rest of loadCatalog once resp.json() produced body: normalization,
\* cache = normalized, buildIndexes(), return cache.
ParsedBody(c, body) ==
    IF body.t = "unparseable" \/ body = JNull
    THEN /\ calls' = [calls EXCEPT ![c] =
                [@ EXCEPT !.pc = "rejected", !.raw = body,
                    !.error = IF body = JNull
                              THEN "TypeError: Cannot read properties of null"
                              ELSE "SyntaxError"]]
         /\ UNCHANGED <<docs, cache, indexVars>>
    ELSE LET built == BuildIndexes(c, Normalize(body))
             throws == ~indexesBuilt /\ built.threw
         IN /\ docs' = [docs EXCEPT ![c] = Normalize(body)]
            /\ cache' = DocRef(c)
            /\ IF indexesBuilt THEN UNCHANGED indexVars
               ELSE /\ attributeById' = built.attributeById
                    /\ objectById' = built.objectById
                    /\ objectsByAttributeId' = built.objectsByAttributeId
                    /\ indexesBuilt' = ~built.threw
            /\ calls' = [calls EXCEPT ![c] =
                    IF throws
                    THEN [@ EXCEPT !.pc = "rejected", !.raw = body,
                            !.error = "TypeError: push is not a function"]
                    ELSE [@ EXCEPT !.pc = "returned", !.raw = body,
                            !.result = DocRef(c)]]

\* await resp.json() settles, and the rest of loadCatalog runs to its end.
JsonSettles(c) ==
    /\ calls[c].pc = "awaitJson"
    /\ \/ \E body \in PlainBodies(family.bodies) : ParsedBody(c, body)
       \/ /\ family.bodies = "catalog"
          /\ \E o \in ObjectArrays, a \in AttributesMembers, legacyKey \in BOOLEAN :
                ParsedBody(c, IF legacyKey THEN ObjectBody(JUndefined, JArray(o), a)
                              ELSE ObjectBody(JArray(o), JUndefined, a))
    /\ UNCHANGED <<family, fetchCount, handler, panel, uiVars>>
    /\ UNCHANGED legacyVars

\* ---------------------------------------------------------------------
\* part_001 DOMContentLoaded handler: load once, first render, list clicks
\* ---------------------------------------------------------------------
\* const allObjects = catalog.objects || []; const allAttributes = ...
AllObjects == docs[calls[1].result.g].objects
AllAttributes == docs[calls[1].result.g].attributes

\* What renderObjectDetail(objectId) puts in the detail panel.
RenderObjectDetail(objectId) ==
    LET obj == GetObjectById(objectId)
    IN IF obj = JNull THEN [view |-> "object-not-found", id |-> objectId]
       ELSE [view |-> "object", id |-> objectId, obj |-> obj,
             attrs |-> GetAttributesForObject(obj)]

\* What renderAttributeDetail(attrId) puts in the detail panel.
RenderAttributeDetail(attrId) ==
    LET attribute == GetAttributeById(attrId)
    IN IF attribute = JNull THEN [view |-> "attribute-not-found", id |-> attrId]
       ELSE [view |-> "attribute", id |-> attrId, attribute |-> attribute,
             objects |-> GetObjectsForAttribute(attrId)]

\* The state that the handlers below leave alone.
loadVars == <<family, calls, fetchCount, docs, cache, indexVars>>

\* All records of an array of the loaded catalog, as references.
RefsOf(k) == [i \in 1..Len(docs[calls[1].result.g][k]) |-> [t |-> "ref", k |-> k, g |-> calls[1].result.g, i |-> i]]

\* renderObjectDetail(objectId) as a step: remembers the id and fills
\* objectDetailEl.
ShowObjectDetail(objectId) ==
    /\ lastSelectedObjectId' = objectId
    /\ panel' = [panel EXCEPT !.objectDetail = RenderObjectDetail(objectId)]

\* renderAttributeDetail(attrId) as a step.
ShowAttributeDetail(attrId) ==
    /\ lastSelectedAttributeId' = attrId
    /\ panel' = [panel EXCEPT !.attributeDetail = RenderAttributeDetail(attrId)]

\* Mutation: a failed load is tried again.
HandlerResumesRetry ==
    /\ handler = "waiting"
    /\ calls[1].pc \in {"returned", "rejected"}
    /\ IF calls[1].pc = "rejected"
       THEN /\ calls' = [calls EXCEPT ![1] = [Idle EXCEPT !.pc = "awaitFetch"]]
            /\ fetchCount' = fetchCount + 1
            /\ UNCHANGED <<family, docs, cache, indexVars, handler, lists, panel,
                           lastSelectedObjectId>>
       ELSE /\ handler' = "ready"
            /\ lists' = [objects |-> RefsOf("objects"),
                         attributes |-> RefsOf("attributes"), text |-> ""]
            /\ IF Len(AllObjects) > 0 THEN ShowObjectDetail(AllObjects[1].id)
               ELSE UNCHANGED <<panel, lastSelectedObjectId>>
            /\ UNCHANGED loadVars
    /\ UNCHANGED <<tab, lastSelectedAttributeId, issue>>
    /\ UNCHANGED legacyVars

\* The handler resumes after await Catalog.loadCatalog(): the static error
\* state, or both lists and the first object selected.
HandlerResumes ==
    /\ handler = "waiting"
    /\ calls[1].pc \in {"returned", "rejected"}
    /\ IF calls[1].pc = "rejected"
       THEN /\ handler' = "error"
            /\ lists' = [NoLists EXCEPT !.text = "Error loading catalog."]
            /\ UNCHANGED <<panel, lastSelectedObjectId>>
       ELSE /\ handler' = "ready"
            /\ lists' = [objects |-> RefsOf("objects"),
                         attributes |-> RefsOf("attributes"), text |-> ""]
            /\ IF Len(AllObjects) > 0 THEN ShowObjectDetail(AllObjects[1].id)
               ELSE UNCHANGED <<panel, lastSelectedObjectId>>
    /\ UNCHANGED <<loadVars, tab, lastSelectedAttributeId, issue>>
    /\ UNCHANGED legacyVars

\* A click on the i-th button of the object list.
ClickObject(i) ==
    /\ handler = "ready"
    /\ i <= Len(lists.objects)
    /\ tab' = "objects"
    /\ ShowObjectDetail(Deref(lists.objects[i]).id)
    /\ UNCHANGED <<loadVars, handler, lastSelectedAttributeId, lists, issue>>
    /\ UNCHANGED legacyVars

\* A click on the j-th button of the attribute list.
ClickAttribute(j) ==
    /\ handler = "ready"
    /\ j <= Len(lists.attributes)
    /\ tab' = "attributes"
    /\ ShowAttributeDetail(Deref(lists.attributes[j]).id)
    /\ UNCHANGED <<loadVars, handler, lastSelectedObjectId, lists, issue>>
    /\ UNCHANGED legacyVars

\* ---------------------------------------------------------------------
\* part_001 handler: search boxes and tabs
\* ---------------------------------------------------------------------
\* What can be typed into a search box, and s.toLowerCase() / text.trim() /
\* haystack.includes(ft) on the strings that occur.
FilterTexts == {"", " Park", "a", "fire"}
ToLowerCase(str) ==
    CASE str = "Parks" -> "parks" [] str = "Area" -> "area" [] str = "Park" -> "park"
      [] str = "O1" -> "o1" [] OTHER -> str
Trim(str) ==
    CASE str = " Park" -> "Park" [] str = " Trails " -> "Trails"
      [] str = "O1 " -> "O1" [] str = " " -> "" [] str = "parks " -> "parks"
      [] str = " b" -> "b" [] str = " a " -> "a" [] OTHER -> str
Includes(hay, needle) ==
    \/ hay = needle
    \/ <<hay, needle>> \in {<<"parks", "park">>, <<"area", "a">>, <<"land", "a">>,
                            <<"parks", "a">>}

\* [obj.id, obj.title, ..., ...(obj.topics || [])].filter(Boolean)
ObjectHaystack(obj) ==
    {v \in {obj.id, obj.title} : Truthy(v)}
        \cup (IF obj.topics.t = "array"
              THEN {obj.topics.v[k] : k \in 1..Len(obj.topics.v)} ELSE {})

\* [attr.id, attr.label, attr.definition].filter(Boolean)
AttributeHaystack(attr) == {v \in {attr.id, attr.label} : Truthy(v)}

\* allObjects / allAttributes, or the records whose haystack includes ft.
Filtered(refs, filterText, Haystack(_)) ==
    LET ft == ToLowerCase(Trim(filterText))
    IN IF ft = "" THEN refs
       ELSE SelectSeq(refs, LAMBDA r :
                \E part \in Haystack(Deref(r)) : Includes(ToLowerCase(part), ft))

\* input on the object search box: renderObjectList(objectSearchInput.value)
FilterObjects(filterText) ==
    /\ handler = "ready"
    /\ lists' = [lists EXCEPT
            !.objects = Filtered(RefsOf("objects"), filterText, ObjectHaystack),
            !.text = IF Len(Filtered(RefsOf("objects"), filterText, ObjectHaystack)) = 0
                     THEN "No objects found." ELSE ""]
    /\ UNCHANGED <<loadVars, handler, panel, tab, lastSelectedObjectId,
                   lastSelectedAttributeId, issue>>
    /\ UNCHANGED legacyVars

\* input on the attribute search box.
FilterAttributes(filterText) ==
    /\ handler = "ready"
    /\ lists' = [lists EXCEPT
            !.attributes = Filtered(RefsOf("attributes"), filterText, AttributeHaystack),
            !.text = IF Len(Filtered(RefsOf("attributes"), filterText, AttributeHaystack)) = 0
                     THEN "No attributes found." ELSE ""]
    /\ UNCHANGED <<loadVars, handler, panel, tab, lastSelectedObjectId,
                   lastSelectedAttributeId, issue>>
    /\ UNCHANGED legacyVars

\* click on a tab button: showObjectsView / showAttributesView
SwitchTab(t) ==
    /\ tab' = t
    /\ UNCHANGED <<loadVars, handler, panel, lastSelectedObjectId,
                   lastSelectedAttributeId, lists, issue>>
    /\ UNCHANGED legacyVars

\* ---------------------------------------------------------------------
\* part_001 handler: the edit forms ("Suggest change")
\* ---------------------------------------------------------------------
\* A value that a closure holds: its own object, or a catalog record.
Cell(v) == [t |-> "cell", v |-> v]
Read(h) == IF h.t = "cell" THEN h.v ELSE Deref(h)

\* JSON.stringify then JSON.parse of one member: absent stays absent, an
\* array is rebuilt element by element, a string is copied.
StringFields == {"id", "title", "label", "description", "objname", "type"}
CloneMember(f, v) ==
    IF f \in StringFields THEN v
    ELSE IF v.t = "array" THEN JArray([k \in 1..Len(v.v) |-> v.v[k]])
    ELSE JUndefined

\* Mutation: the form works on the catalog record itself.
DeepCloneAlias(r) == r

\* deepClone(obj) of a catalog record: a new object with cloned members.
DeepClone(r) == Cell([f \in DOMAIN Deref(r) |-> CloneMember(f, Deref(r)[f])])

\* What can be typed into the inputs of the forms.
TitleTexts == {"Parks", " Trails "}
CsvTexts == {"", "land, water"}
LabelTexts == {"", "Size"}
JsonTexts ==
    {"", "[{\"code\":\"x\",\"label\":\"Ex\"}]", "[{\"label\":\"Ex\",\"code\":\"x\"}]", "{bad"}
\* Texts that parse to a value that is not an array.
ScalarJsonTexts == {"0", "{\"code\":\"x\"}"}

\* parseCsvList(str) and tryParseJson(text) on the texts that occur.
ParseCsvList(str) ==
    CASE str = "land" -> <<"land">>
      [] str = "land, water" -> <<"land", "water">>
      [] OTHER -> <<>>
TryParseJson(text) ==
    CASE Trim(text) = "" -> JNull
      [] text = "[{\"code\":\"x\",\"label\":\"Ex\"}]" ->
            JArray(<<ValueObject(<<"code", "label">>, "x", "Ex")>>)
      [] text = "[{\"label\":\"Ex\",\"code\":\"x\"}]" ->
            JArray(<<ValueObject(<<"label", "code">>, "x", "Ex")>>)
      [] text = "0" -> [t |-> "number", zero |-> TRUE]
      [] text = "{\"code\":\"x\"}" -> ValueObject(<<"code">>, "x", Undefined)
      [] OTHER -> [t |-> "parse_error"]

\* compactObject(obj): members that are undefined, an empty array or a blank
\* string are left out.
CompactMember(f, v) ==
    IF f \in StringFields THEN (IF Trim(v) = "" THEN Undefined ELSE v)
    ELSE IF v.t = "array" /\ Len(v.v) > 0 THEN v
    ELSE JUndefined

\* Mutation: nothing is left out.
CompactObjectKeep(obj) == obj

CompactObject(obj) == [f \in DOMAIN obj |-> CompactMember(f, obj[f])]

\* Whether a member is left out of an object.
Absent(f, v) == IF f \in StringFields THEN v = Undefined ELSE v.t = "undefined"

\* The members of the catalog records in the order the document gives them.
ObjectFields == <<"id", "title", "topics", "keywords", "attribute_ids">>
AttributeFields == <<"id", "label", "values">>

\* JSON.stringify of a string, of the texts of an array's elements, and of an
\* object of an attribute's values (its keys in their own order).
Quote(str) == "\"" \o str \o "\""
RECURSIVE JoinTexts(_)
JoinTexts(texts) ==
    IF Len(texts) = 0 THEN ""
    ELSE IF Len(texts) = 1 THEN texts[1]
    ELSE texts[1] \o "," \o JoinTexts(Tail(texts))
StringifyObject(o) ==
    "{" \o JoinTexts([k \in 1..Len(o.keys) |-> Quote(o.keys[k]) \o ":" \o Quote(o[o.keys[k]])])
        \o "}"

\* JSON.stringify(obj[f]): undefined for an absent member.
Stringify(f, v) ==
    IF f \in StringFields THEN (IF v = Undefined THEN Undefined ELSE Quote(v))
    ELSE IF v.t = "array"
    THEN "[" \o JoinTexts([k \in 1..Len(v.v) |->
                    IF f = "values" THEN StringifyObject(v.v[k]) ELSE Quote(v.v[k])])
             \o "]"
    ELSE Undefined

\* computeChanges(original, updated): the members whose JSON text differs,
\* the keys of original first, then the keys that only updated has.
ComputeChanges(original, updated, fields) ==
    LET differs(f) == Stringify(f, original[f]) # Stringify(f, updated[f])
        keys == SelectSeq(fields, LAMBDA f : ~Absent(f, original[f]) /\ differs(f))
                \o SelectSeq(fields, LAMBDA f : Absent(f, original[f]) /\ differs(f))
    IN [k \in 1..Len(keys) |->
            [key |-> keys[k], from |-> original[keys[k]], to |-> updated[keys[k]]]]

\* The records of the catalog after obj[k] = v for each member of written,
\* when the object behind handle h is a catalog record.
Written(h, written) ==
    IF h.t = "cell" THEN docs
    ELSE [docs EXCEPT ![h.g][h.k][h.i] = written]

\* click on "Suggest change" of the object shown: renderObjectEditForm(objId)
OpenObjectEdit ==
    /\ panel.objectDetail.view = "object"
    /\ LET obj == GetObjectById(panel.objectDetail.id)
       IN IF obj.t # "ref" THEN UNCHANGED panel
          ELSE panel' = [panel EXCEPT !.objectDetail =
                    [view |-> "objectEdit", id |-> panel.objectDetail.id,
                     original |-> DeepClone(obj), draft |-> DeepClone(obj),
                     attrs |-> GetAttributesForObject(obj)]]
    /\ UNCHANGED <<loadVars, handler, uiVars>>
    /\ UNCHANGED legacyVars

\* click on "Submit suggestion" of the object edit form with the inputs
\* holding title and topics: the draft is written, the issue is opened and
\* the detail is shown again.
SubmitObjectEdit(title, topics) ==
    /\ panel.objectDetail.view = "objectEdit"
    /\ LET form == panel.objectDetail
           draft == [Read(form.draft) EXCEPT
                        !.title = Trim(title),
                        !.topics = JArray(ParseCsvList(topics))]
           heap == Written(form.draft, draft)
           original == IF form.draft.t = "ref" /\ form.original = form.draft THEN draft
                       ELSE Read(form.original)
           updated == CompactObject(draft)
           origCompact == CompactObject(original)
       IN /\ docs' = heap
          /\ issue' = [kind |-> "objectEdit", id |-> form.id,
                       original |-> origCompact, updated |-> updated,
                       changes |-> ComputeChanges(origCompact, updated, ObjectFields)]
          /\ ShowObjectDetail(form.id)
    /\ UNCHANGED <<family, calls, fetchCount, cache, indexVars>>
    /\ UNCHANGED <<handler, tab, lastSelectedAttributeId, lists>>
    /\ UNCHANGED legacyVars

\* click on "Cancel" of the object edit form: renderObjectDetail(objectId)
CancelObjectEdit ==
    /\ panel.objectDetail.view = "objectEdit"
    /\ ShowObjectDetail(panel.objectDetail.id)
    /\ UNCHANGED <<loadVars, handler, tab, lastSelectedAttributeId, lists, issue>>
    /\ UNCHANGED legacyVars

\* click on "Suggest change" of the attribute shown
OpenAttributeEdit ==
    /\ panel.attributeDetail.view = "attribute"
    /\ LET attribute == GetAttributeById(panel.attributeDetail.id)
       IN IF attribute.t # "ref" THEN UNCHANGED panel
          ELSE panel' = [panel EXCEPT !.attributeDetail =
                    [view |-> "attributeEdit", id |-> panel.attributeDetail.id,
                     original |-> DeepClone(attribute), draft |-> DeepClone(attribute),
                     objects |-> GetObjectsForAttribute(panel.attributeDetail.id)]]
    /\ UNCHANGED <<loadVars, handler, uiVars>>
    /\ UNCHANGED legacyVars

\* Mutation: the submission goes on after a JSON text that does not parse.
SubmitAttributeEditDespiteError(label, valuesText) ==
    /\ panel.attributeDetail.view = "attributeEdit"
    /\ LET form == panel.attributeDetail
           parsed == TryParseJson(valuesText)
           hadError == parsed.t = "parse_error"
           before == Read(form.draft)
           draft == [before EXCEPT
                        !.label = IF Trim(label) = "" THEN Undefined ELSE Trim(label),
                        !.values = IF hadError THEN before.values
                                   ELSE IF parsed = JNull THEN JUndefined ELSE parsed]
           original == IF form.draft.t = "ref" /\ form.original = form.draft THEN draft
                       ELSE Read(form.original)
           updated == CompactObject(draft)
           origCompact == CompactObject(original)
       IN /\ docs' = Written(form.draft, draft)
          /\ IF FALSE
             THEN /\ panel' = [panel EXCEPT !.attributeDetail.draft =
                                  IF form.draft.t = "cell" THEN Cell(draft) ELSE form.draft]
                  /\ UNCHANGED <<issue, lastSelectedAttributeId>>
             ELSE /\ issue' = [kind |-> "attributeEdit", id |-> form.id,
                               original |-> origCompact, updated |-> updated,
                               changes |-> ComputeChanges(origCompact, updated,
                                                          AttributeFields)]
                  /\ ShowAttributeDetail(form.id)
    /\ UNCHANGED <<family, calls, fetchCount, cache, indexVars>>
    /\ UNCHANGED <<handler, tab, lastSelectedObjectId, lists>>
    /\ UNCHANGED legacyVars

\* click on "Submit suggestion" of the attribute edit form: every input is
\* written to the draft; a JSON text that does not parse stops the
\* submission after the writes and leaves the form open.
SubmitAttributeEdit(label, valuesText) ==
    /\ panel.attributeDetail.view = "attributeEdit"
    /\ LET form == panel.attributeDetail
           parsed == TryParseJson(valuesText)
           hadError == parsed.t = "parse_error"
           before == Read(form.draft)
           draft == [before EXCEPT
                        !.label = IF Trim(label) = "" THEN Undefined ELSE Trim(label),
                        !.values = IF hadError THEN before.values
                                   ELSE IF parsed = JNull THEN JUndefined ELSE parsed]
           original == IF form.draft.t = "ref" /\ form.original = form.draft THEN draft
                       ELSE Read(form.original)
           updated == CompactObject(draft)
           origCompact == CompactObject(original)
       IN /\ docs' = Written(form.draft, draft)
          /\ IF hadError
             THEN /\ panel' = [panel EXCEPT !.attributeDetail.draft =
                                  IF form.draft.t = "cell" THEN Cell(draft) ELSE form.draft]
                  /\ UNCHANGED <<issue, lastSelectedAttributeId>>
             ELSE /\ issue' = [kind |-> "attributeEdit", id |-> form.id,
                               original |-> origCompact, updated |-> updated,
                               changes |-> ComputeChanges(origCompact, updated,
                                                          AttributeFields)]
                  /\ ShowAttributeDetail(form.id)
    /\ UNCHANGED <<family, calls, fetchCount, cache, indexVars>>
    /\ UNCHANGED <<handler, tab, lastSelectedObjectId, lists>>
    /\ UNCHANGED legacyVars

\* click on "Cancel" of the attribute edit form
CancelAttributeEdit ==
    /\ panel.attributeDetail.view = "attributeEdit"
    /\ ShowAttributeDetail(panel.attributeDetail.id)
    /\ UNCHANGED <<loadVars, handler, tab, lastSelectedObjectId, lists, issue>>
    /\ UNCHANGED legacyVars

\* click on an object button of the attribute detail
ClickObjectOfAttribute(k) ==
    /\ panel.attributeDetail.view = "attribute"
    /\ panel.attributeDetail.objects.t = "array"
    /\ k <= Len(panel.attributeDetail.objects.v)
    /\ tab' = "objects"
    /\ ShowObjectDetail(Deref(panel.attributeDetail.objects.v[k]).id)
    /\ UNCHANGED <<loadVars, handler, lastSelectedAttributeId, lists, issue>>
    /\ UNCHANGED legacyVars

\* ---------------------------------------------------------------------
\* part_001 handler: the forms for a new object and a new attribute
\* ---------------------------------------------------------------------
Hidden == [view |-> "hidden"]

\* goBackToLastObjectOrList()
GoBackToLastObjectOrList ==
    /\ tab' = "objects"
    /\ IF lastSelectedObjectId # NullId /\ Truthy(lastSelectedObjectId)
          /\ GetObjectById(lastSelectedObjectId) # JNull
       THEN ShowObjectDetail(lastSelectedObjectId)
       ELSE IF Len(AllObjects) > 0 THEN ShowObjectDetail(AllObjects[1].id)
       ELSE /\ panel' = [panel EXCEPT !.objectDetail = Hidden]
            /\ UNCHANGED lastSelectedObjectId

\* goBackToAttributesListOrFirst()
GoBackToAttributesListOrFirst ==
    /\ tab' = "attributes"
    /\ IF Len(AllAttributes) > 0 THEN ShowAttributeDetail(AllAttributes[1].id)
       ELSE /\ panel' = [panel EXCEPT !.attributeDetail = Hidden]
            /\ UNCHANGED lastSelectedAttributeId

\* What can be typed as an id in the new-object and new-attribute forms.
NewObjectIdTexts == {"", "O1 ", "new"}
NewAttributeIdTexts == {"", "a", "constructor"}
ExistingAttributeTexts == {"a", "zz"}

\* What can be typed as name, database object name and description of a new
\* object, and as its id while the id is being suggested.
NameTexts == {"", "Parks", "!!"}
ObjnameTexts == {"", "SDE.Roads"}
DescriptionTexts == {"", "Big lake"}
TypedIdTexts == {"", " ", "parks ", "my_id"}

\* What can be typed into the add-existing-attribute input.
AttributeSearchTexts == {"", "a", " b", "zz", "constructor"}

\* slugifyObjectId(raw) on the texts that occur.
SlugifyObjectId(raw) ==
    CASE raw = "Parks" -> "parks"
      [] raw = "Roads" -> "roads"
      [] raw = "SDE.Roads" -> "sde_roads"
      [] raw = "Big lake" -> "big_lake"
      [] OTHER -> ""

\* parts[parts.length - 1] of String(objname).split('.')
LastToken(objname) == IF objname = "SDE.Roads" THEN "Roads" ELSE objname

SuggestObjectIdFromDraft(title, objname, description) ==
    LET base == IF title # "" THEN title
                ELSE IF objname # ""
                     THEN (IF LastToken(objname) # "" THEN LastToken(objname) ELSE objname)
                     ELSE description
    IN SlugifyObjectId(base)

\* Mutation: the suggestion is always written (force).
MaybeSuggestIdForce(form) ==
    LET suggested == SuggestObjectIdFromDraft(form.title, form.objname, form.description)
    IN IF suggested = "" THEN form
       ELSE [form EXCEPT !.id = suggested, !.lastAutoId = suggested,
                         !.suggested = suggested]

\* maybeSuggestId(false) on the form: its id field and lastAutoId; suggested
\* records the last value that was written (history, not read by the page).
MaybeSuggestId(form) ==
    LET suggested == SuggestObjectIdFromDraft(form.title, form.objname, form.description)
        current == Trim(form.id)
        canOverwrite == current = "" \/ (form.lastAutoId # "" /\ current = form.lastAutoId)
    IN IF suggested = "" THEN form
       ELSE IF canOverwrite
            THEN [form EXCEPT !.id = suggested, !.lastAutoId = suggested,
                              !.suggested = suggested]
            ELSE form

\* makeNewAttrDraft(), with the members that the submit reads.
MakeNewAttrDraft == [id |-> "", type |-> "", values_json |-> ""]

MaxNewAttrs == 2

\* What the inputs of a new-attribute card can hold when Submit is clicked.
CardTexts ==
    {MakeNewAttrDraft,
     [id |-> "new", type |-> "", values_json |-> ""],
     [id |-> " a ", type |-> "", values_json |-> ""],
     [id |-> "new", type |-> "enumerated", values_json |-> ""],
     [id |-> "new", type |-> "enumerated",
      values_json |-> "[{\"code\":\"x\",\"label\":\"Ex\"}]"],
     [id |-> "new", type |-> "enumerated", values_json |-> "{bad"],
     [id |-> "new", type |-> "enumerated", values_json |-> "0"],
     [id |-> "new", type |-> "enumerated", values_json |-> "{\"code\":\"x\"}"],
     [id |-> "my_id", type |-> "string", values_json |-> "{bad"]}

\* click on "New object": showObjectsView(); renderNewObjectCreateForm().
\* manual and manualExact are history: whether the user has typed an id
\* other than the last suggestion since the id was last emptied, comparing
\* trimmed texts and exact texts.
OpenNewObject ==
    /\ handler = "ready"
    /\ tab' = "objects"
    /\ panel' = [panel EXCEPT !.objectDetail =
            MaybeSuggestId(
                [view |-> "newObject", id |-> "", lastAutoId |-> "",
                 title |-> "", objname |-> "", description |-> "",
                 attribute_ids |-> <<>>, new_attributes |-> <<>>,
                 existingObjectIds |->
                    {ToLowerCase(Trim(Or(AllObjects[i].id, ""))) : i \in 1..Len(AllObjects)},
                 suggested |-> "", manual |-> FALSE, manualExact |-> FALSE])]
    /\ UNCHANGED <<loadVars, handler, lastSelectedObjectId, lastSelectedAttributeId,
                   lists, issue>>
    /\ UNCHANGED legacyVars

\* input event on the Name, Database Object Name or Definition field
InputNameField(key, text) ==
    /\ panel.objectDetail.view = "newObject"
    /\ panel' = [panel EXCEPT !.objectDetail =
                    MaybeSuggestId([panel.objectDetail EXCEPT ![key] = text])]
    /\ UNCHANGED <<loadVars, handler, uiVars>>
    /\ UNCHANGED legacyVars

\* input event on the Object ID field
InputObjectId(text) ==
    /\ panel.objectDetail.view = "newObject"
    /\ LET form == panel.objectDetail
           current == Trim(text)
       IN panel' = [panel EXCEPT !.objectDetail =
            [form EXCEPT
                !.id = text,
                !.lastAutoId = IF form.lastAutoId # "" /\ current # form.lastAutoId
                               THEN "" ELSE form.lastAutoId,
                !.manual = IF current = "" THEN FALSE
                           ELSE IF current # form.suggested THEN TRUE ELSE form.manual,
                !.manualExact = IF text = "" THEN FALSE
                                ELSE IF text # form.suggested THEN TRUE
                                ELSE form.manualExact]]
    /\ UNCHANGED <<loadVars, handler, uiVars>>
    /\ UNCHANGED legacyVars

\* Array.from(new Set(ids.map(x => String(x || '').trim()).filter(Boolean)))
RECURSIVE UniqueIds(_)
UniqueIds(ids) ==
    IF Len(ids) = 0 THEN <<>>
    ELSE LET rest == UniqueIds(SubSeq(ids, 1, Len(ids) - 1))
             id == Trim(ids[Len(ids)])
         IN IF id = "" \/ \E k \in 1..Len(rest) : rest[k] = id THEN rest
            ELSE Append(rest, id)

\* click on "Add" with rawText typed into the existing-attribute input
AddExistingAttribute(rawText) ==
    /\ panel.objectDetail.view = "newObject"
    /\ LET ids == panel.objectDetail.attribute_ids
           raw == Trim(rawText)
       IN IF raw = "" \/ GetAttributeById(raw) = JNull
          THEN UNCHANGED panel
          ELSE panel' = [panel EXCEPT !.objectDetail.attribute_ids =
                    UniqueIds(IF \E k \in 1..Len(ids) : ids[k] = raw THEN ids
                              ELSE Append(ids, raw))]
    /\ UNCHANGED <<loadVars, handler, uiVars>>
    /\ UNCHANGED legacyVars

\* click on the remove button of the k-th chip
RemoveChip(k) ==
    /\ panel.objectDetail.view = "newObject"
    /\ k <= Len(panel.objectDetail.attribute_ids)
    /\ LET ids == panel.objectDetail.attribute_ids
       IN panel' = [panel EXCEPT !.objectDetail.attribute_ids =
                UniqueIds(SelectSeq(ids, LAMBDA x : x # ids[k]))]
    /\ UNCHANGED <<loadVars, handler, uiVars>>
    /\ UNCHANGED legacyVars

\* click on "+ Add new attribute"
AddNewAttribute ==
    /\ panel.objectDetail.view = "newObject"
    /\ Len(panel.objectDetail.new_attributes) < MaxNewAttrs
    /\ panel' = [panel EXCEPT !.objectDetail.new_attributes = Append(@, MakeNewAttrDraft)]
    /\ UNCHANGED <<loadVars, handler, uiVars>>
    /\ UNCHANGED legacyVars

\* click on "Remove" of the card with index idx: splice(idx, 1)
RemoveNewAttribute(idx) ==
    /\ panel.objectDetail.view = "newObject"
    /\ idx <= Len(panel.objectDetail.new_attributes)
    /\ panel' = [panel EXCEPT !.objectDetail.new_attributes =
                    [k \in 1..(Len(@) - 1) |-> IF k < idx THEN @[k] ELSE @[k + 1]]]
    /\ UNCHANGED <<loadVars, handler, uiVars>>
    /\ UNCHANGED legacyVars

\* A JavaScript value that is falsy.
Falsy(v) == v.t \in {"null", "undefined"} \/ (v.t = "number" /\ v.zero)

\* The body of the submit loop for one new-attribute draft: whether it stops
\* the submit with an alert.
DraftAlerts(a) ==
    LET aid == Trim(a.id)
        parsed == TryParseJson(Trim(a.values_json))
    IN \/ aid = ""
       \/ GetAttributeById(aid) # JNull
       \/ /\ Trim(a.type) = "enumerated"
          /\ Trim(a.values_json) # ""
          /\ \/ parsed.t = "parse_error"
             \/ ~Falsy(parsed) /\ parsed.t # "array"

\* The attribute that the submit loop builds from a draft that passes.
DraftAttribute(a) ==
    LET type == Trim(a.type)
        parsed == TryParseJson(Trim(a.values_json))
    IN CompactObject(
        [id |-> Trim(a.id),
         type |-> IF type = "" THEN Undefined ELSE type,
         values |-> IF type # "enumerated" THEN JUndefined
                    ELSE IF Trim(a.values_json) = "" \/ Falsy(parsed) THEN JArray(<<>>)
                    ELSE parsed])

\* click on "Submit" of the new-object form; proceed is the answer to the
\* confirmation asked when the id is already in the catalog, cards are the
\* texts in the inputs of the new-attribute cards.  The inputs that have no
\* listener (geometry type, topics and the like) are left blank.
SubmitNewObject(proceed, cards) ==
    /\ panel.objectDetail.view = "newObject"
    /\ Len(cards) = Len(panel.objectDetail.new_attributes)
    /\ LET form == panel.objectDetail
           id == Trim(form.id)
           newAttrIds == [k \in 1..Len(cards) |-> Trim(cards[k].id)]
           combinedAttrIds == UniqueIds(UniqueIds(form.attribute_ids) \o newAttrIds)
       IN IF id = "" \/ (ToLowerCase(id) \in form.existingObjectIds /\ ~proceed)
          THEN UNCHANGED <<panel, uiVars>>
          ELSE IF \E k \in 1..Len(cards) : DraftAlerts(cards[k])
          THEN /\ panel' = [panel EXCEPT !.objectDetail.new_attributes = cards]
               /\ UNCHANGED uiVars
          ELSE /\ issue' = [kind |-> "newObject",
                            object |-> CompactObject(
                                [id |-> id,
                                 title |-> Trim(form.title),
                                 description |-> Trim(form.description),
                                 objname |-> Trim(form.objname),
                                 attribute_ids |-> JArray(combinedAttrIds)]),
                            attributes |-> [k \in 1..Len(cards) |-> DraftAttribute(cards[k])]]
               /\ GoBackToLastObjectOrList
               /\ UNCHANGED <<lastSelectedAttributeId, lists>>
    /\ UNCHANGED <<loadVars, handler>>
    /\ UNCHANGED legacyVars

\* click on "Cancel" of the new-object form
CancelNewObject ==
    /\ panel.objectDetail.view = "newObject"
    /\ GoBackToLastObjectOrList
    /\ UNCHANGED <<loadVars, handler, lastSelectedAttributeId, lists, issue>>
    /\ UNCHANGED legacyVars

\* click on "New attribute": showAttributesView(); renderNewAttributeCreateForm()
OpenNewAttribute ==
    /\ handler = "ready"
    /\ tab' = "attributes"
    /\ panel' = [panel EXCEPT !.attributeDetail = [view |-> "newAttribute"]]
    /\ UNCHANGED <<loadVars, handler, lastSelectedObjectId, lastSelectedAttributeId,
                   lists, issue>>
    /\ UNCHANGED legacyVars

\* click on "Submit" of the new-attribute form (single mode)
SubmitNewAttribute(idText, proceed) ==
    /\ panel.attributeDetail.view = "newAttribute"
    /\ LET id == Trim(idText)
       IN IF id = "" \/ (GetAttributeById(id) # JNull /\ ~proceed)
          THEN UNCHANGED <<panel, uiVars>>
          ELSE /\ issue' = [kind |-> "newAttributes",
                            attributes |-> <<CompactObject([id |-> id, label |-> ""])>>]
               /\ GoBackToAttributesListOrFirst
               /\ UNCHANGED <<lastSelectedObjectId, lists>>
    /\ UNCHANGED <<loadVars, handler>>
    /\ UNCHANGED legacyVars

\* click on "Cancel" of the new-attribute form
CancelNewAttribute ==
    /\ panel.attributeDetail.view = "newAttribute"
    /\ GoBackToAttributesListOrFirst
    /\ UNCHANGED <<loadVars, handler, lastSelectedObjectId, lists, issue>>
    /\ UNCHANGED legacyVars

AppNext ==
    \/ Call(1)
    \/ FetchSettles(1)
    \/ JsonSettles(1)
    \/ HandlerResumes
    \/ \E i \in 1..MaxObjects : ClickObject(i)
    \/ \E j \in 1..MaxAttrs : ClickAttribute(j)

\* The operations of the page of part_001: lists, filters, tabs, the edit
\* forms and the create forms (the new-object form with an id typed and
\* existing attributes added).
UINext ==
    \/ Call(1)
    \/ FetchSettles(1)
    \/ JsonSettles(1)
    \/ HandlerResumes
    \/ \E i \in 1..MaxObjects : ClickObject(i)
    \/ \E j \in 1..MaxAttrs : ClickAttribute(j)
    \/ \E ft \in FilterTexts : FilterObjects(ft)
    \/ \E ft \in FilterTexts : FilterAttributes(ft)
    \/ \E t \in {"objects", "attributes"} : SwitchTab(t)
    \/ OpenObjectEdit
    \/ \E title \in TitleTexts, topics \in CsvTexts : SubmitObjectEdit(title, topics)
    \/ CancelObjectEdit
    \/ OpenAttributeEdit
    \/ \E label \in LabelTexts, valuesText \in JsonTexts : SubmitAttributeEdit(label, valuesText)
    \/ CancelAttributeEdit
    \/ \E k \in 1..MaxObjects : ClickObjectOfAttribute(k)
    \/ OpenNewObject
    \/ \E raw \in ExistingAttributeTexts : AddExistingAttribute(raw)
    \/ InputObjectId("new")
    \/ \E proceed \in BOOLEAN : SubmitNewObject(proceed, <<>>)
    \/ CancelNewObject
    \/ OpenNewAttribute
    \/ \E idText \in NewAttributeIdTexts, proceed \in BOOLEAN : SubmitNewAttribute(idText, proceed)
    \/ CancelNewAttribute

\* The new-object form while its name fields and its id are being typed.
SuggestNext ==
    \/ Call(1)
    \/ FetchSettles(1)
    \/ JsonSettles(1)
    \/ HandlerResumes
    \/ OpenNewObject
    \/ \E text \in NameTexts : InputNameField("title", text)
    \/ \E text \in ObjnameTexts : InputNameField("objname", text)
    \/ \E text \in DescriptionTexts : InputNameField("description", text)
    \/ \E text \in TypedIdTexts : InputObjectId(text)
    \/ CancelNewObject

\* The new-object form with its attribute selection, its new-attribute cards
\* and its submit; the form is opened until one issue has been opened.
CardSeqs == UNION {[1..n -> CardTexts] : n \in 0..MaxNewAttrs}

NewObjectNext ==
    \/ Call(1)
    \/ FetchSettles(1)
    \/ JsonSettles(1)
    \/ HandlerResumes
    \/ (issue = NoIssue /\ OpenNewObject)
    \/ \E text \in NewObjectIdTexts : InputObjectId(text)
    \/ \E rawText \in AttributeSearchTexts : AddExistingAttribute(rawText)
    \/ \E k \in 1..Cardinality(AttributeSearchTexts) : RemoveChip(k)
    \/ AddNewAttribute
    \/ \E idx \in 1..MaxNewAttrs : RemoveNewAttribute(idx)
    \/ \E proceed \in BOOLEAN, cards \in CardSeqs : SubmitNewObject(proceed, cards)
    \/ CancelNewObject

\* The attribute list and the attribute edit form.
AttributeEditNext ==
    \/ Call(1)
    \/ FetchSettles(1)
    \/ JsonSettles(1)
    \/ HandlerResumes
    \/ \E t \in {"objects", "attributes"} : SwitchTab(t)
    \/ \E j \in 1..MaxAttrs : ClickAttribute(j)
    \/ OpenAttributeEdit
    \/ \E label \in LabelTexts, valuesText \in JsonTexts : SubmitAttributeEdit(label, valuesText)
    \/ CancelAttributeEdit

LegacyNext ==
    \/ LegacyHttpError
    \/ LegacyFetchOk
    \/ LegacyJsonThrows
    \/ LegacyNotArray
    \/ LegacyAccept
    \/ VisitAttr
    \/ Finalize

vars == <<legacyVars, catalogVars>>

LoadNext ==
    \/ \E c \in 1..family.callers : Call(c)
    \/ \E c \in 1..family.callers : FetchSettles(c)
    \/ \E c \in 1..family.callers : JsonSettles(c)

InitIndex == LegacyInitOver(MergeDecls) /\ CatalogInit("none", 0)

\* The legacy application: loadCatalog() of part_000 from fetch to first render.
SpecIndex == InitIndex /\ [][LegacyNext]_vars

DetailNext ==
    \/ LegacyNext
    \/ \E name \in AttrNames : LegacyShowAttributeDetail(name)

\* The legacy application with its attribute cards being clicked.
SpecDetail == InitIndex /\ [][DetailNext]_vars

InitDomain == LegacyInitOver(DomainDecls) /\ CatalogInit("none", 0)

\* The legacy application on catalogs whose declarations carry domains.
SpecDomain == InitDomain /\ [][LegacyNext]_vars

RebuildNext ==
    \/ LegacyNext
    \/ Rebuild

InitRebuild == LegacyInitOver(RebuildDecls) /\ CatalogInit("none", 0)

\* The legacy application, its index being built again after the load.
SpecRebuild == InitRebuild /\ [][RebuildNext]_vars

InitApp == LegacyIdle /\ CatalogInit("catalog", 1)

\* The application of part_001: the startup handler loads the catalog once,
\* then the user browses objects and attributes.
SpecApp == InitApp /\ [][AppNext]_vars

InitUI == LegacyIdle /\ CatalogInit("ui", 1)

\* The page of part_001 with every operation its user has.
SpecUI == InitUI /\ [][UINext]_vars

\* The attribute edit form of part_001.
SpecAttributeEdit == InitUI /\ [][AttributeEditNext]_vars

\* The new-object form of part_001 while an id is suggested.
SpecSuggest == InitUI /\ [][SuggestNext]_vars

\* The new-object form of part_001 from opening to submit.
SpecNewObject == InitUI /\ [][NewObjectNext]_vars

InitLoad == LegacyIdle /\ CatalogInit("small", MaxCalls)

\* The Catalog module under any callers of loadCatalog().
SpecLoad == InitLoad /\ [][LoadNext]_vars


\* ---------------------------------------------------------------------
\* Properties of the attribute index
\* ---------------------------------------------------------------------
\* Positions <<dataset, declaration>> of the catalog in processing order.
RECURSIVE DeclPositions(_, _)
DeclPositions(cat, i) ==
    IF i > Len(cat) THEN <<>>
    ELSE [j \in 1..Len(AttrsOf(cat[i])) |-> [d |-> i, a |-> j]] \o DeclPositions(cat, i + 1)

\* The named declarations of attribute n that the loops have passed.
Visited(n) ==
    LET passed(p) == p.d < di \/ (p.d = di /\ p.a < ai)
        named(p) == AttrsOf(catalog[p.d])[p.a].name = n
    IN SelectSeq(DeclPositions(catalog, 1), LAMBDA p : passed(p) /\ named(p))

DeclAt(p) == AttrsOf(catalog[p.d])[p.a]

\* The first non-empty value of field f among the visited declarations of n,
\* or the empty string.
FirstStated(n, f) ==
    LET v == Visited(n)
        stated == {k \in 1..Len(v) : Truthy(DeclAt(v[k])[f])}
    IN IF stated = {} THEN ""
       ELSE DeclAt(v[CHOOSE k \in stated : \A m \in stated : k <= m])[f]

IndexKeys == {attributeIndex[k].name : k \in 1..Len(attributeIndex)}
Entry(n) == attributeIndex[KeyPos(attributeIndex, n)]

\* C1 (state part): the canonical type and description are the first stated
\* ones in processing order, each visited declaration has its own type and
\* description in definitions, and two distinct stated types are a conflict.
C1_FirstStatedIsCanonical ==
    \A n \in IndexKeys :
        LET e == Entry(n)
            v == Visited(n)
        IN /\ e.type = FirstStated(n, "type")
           /\ e.description = FirstStated(n, "description")
           /\ Len(e.definitions) = Len(v)
           /\ \A k \in 1..Len(v) :
                /\ e.definitions[k].datasetId = catalog[v[k].d].id
                /\ e.definitions[k].type = Or(DeclAt(v[k]).type, "")
                /\ e.definitions[k].description = Or(DeclAt(v[k]).description, "")
           /\ (\E k, m \in 1..Len(v) :
                    /\ Truthy(DeclAt(v[k]).type) /\ Truthy(DeclAt(v[m]).type)
                    /\ DeclAt(v[k]).type # DeclAt(v[m]).type)
                => HasTypeConflict(e)

\* C1 (step part): a canonical type or description that is set is never
\* changed by a later step.
C1_SetIsKept ==
    \A n \in IndexKeys :
        /\ n \in IndexKeys'
        /\ Truthy(Entry(n).type) => Entry(n)'.type = Entry(n).type
        /\ Truthy(Entry(n).description) => Entry(n)'.description = Entry(n).description

\* C1: first-non-empty-wins for type and description; a disagreeing later
\* declaration is recorded in definitions and reported as a conflict, never
\* written over the canonical value.
C1_FirstNonEmptyWins == [](C1_FirstStatedIsCanonical) /\ [][C1_SetIsKept]_vars

\* C1 witness: the build is over, dataset parks stated float and trails
\* stated string for the same attribute.
C1_Witness ==
    /\ legacyPc = "returned"
    /\ \E n \in IndexKeys :
        /\ Len(Entry(n).definitions) = 2
        /\ Entry(n).definitions[1].type = "float"
        /\ Entry(n).definitions[2].type = "string"
        /\ Entry(n).definitions[1].datasetId = "parks"
        /\ Entry(n).definitions[2].datasetId = "trails"
        /\ Entry(n).type = "float"
        /\ HasTypeConflict(Entry(n))

\* The number of declarations of attribute n in dataset i.
DeclaredTimes(i, n) ==
    Cardinality({j \in 1..Len(AttrsOf(catalog[i])) : AttrsOf(catalog[i])[j].name = n})

\* C2 as stated: after the build every entry of datasets has exactly one
\* definition with the same datasetId, and a dataset is listed exactly when it
\* declares the attribute.
C2_ExactlyOneDefinition ==
    legacyPc = "returned" =>
        \A n \in IndexKeys :
            LET e == Entry(n) IN
            /\ \A k \in 1..Len(e.datasets) :
                    Cardinality({m \in 1..Len(e.definitions) :
                        e.definitions[m].datasetId = e.datasets[k].id}) = 1
            /\ \A i \in 1..Len(catalog) :
                    (\E k \in 1..Len(e.datasets) : e.datasets[k].id = catalog[i].id)
                        <=> DeclaredTimes(i, n) > 0

\* C2 amended: datasets and definitions are paired entry by entry, one pair
\* per declaration of the attribute in processing order; a dataset is listed
\* as many times as it declares the attribute.
C2_OnePairPerDeclaration ==
    \A n \in IndexKeys :
        LET e == Entry(n)
            v == Visited(n)
        IN /\ Len(e.datasets) = Len(v)
           /\ Len(e.definitions) = Len(v)
           /\ \A k \in 1..Len(v) :
                /\ e.datasets[k].id = catalog[v[k].d].id
                /\ e.definitions[k].datasetId = catalog[v[k].d].id
                /\ e.definitions[k].datasetTitle = e.datasets[k].title
           /\ legacyPc = "returned" =>
                \A i \in 1..Len(catalog) :
                    Cardinality({k \in 1..Len(e.datasets) : e.datasets[k].id = catalog[i].id})
                        = DeclaredTimes(i, n)

\* C2 witness: one dataset declares the attribute twice, another not at all.
C2_Witness ==
    /\ legacyPc = "returned"
    /\ Len(catalog) = 2
    /\ \E n \in IndexKeys :
        /\ DeclaredTimes(1, n) = 2
        /\ DeclaredTimes(2, n) = 0
        /\ Len(Entry(n).datasets) = 2

\* The visited declarations of n include one with nullable === false.
SomeVisitedNotNullable(n) ==
    \E k \in 1..Len(Visited(n)) : DeclAt(Visited(n)[k]).nullable = JFalse

C4_State ==
    \A n \in IndexKeys : SomeVisitedNotNullable(n) => Entry(n).nullable = JFalse

C4_Step ==
    \A n \in IndexKeys :
        Entry(n).nullable = JFalse => (n \in IndexKeys' /\ Entry(n)'.nullable = JFalse)

\* C4: nullable tightens monotonically: one declaration with nullable false
\* makes the canonical nullable false in every processing order, and once
\* false it stays false.
C4_NullableMonotone == [](C4_State) /\ [][C4_Step]_vars

\* C4 witness: nullable false was declared first and nullable true after it.
C4_Witness ==
    /\ legacyPc = "returned"
    /\ \E n \in IndexKeys :
        /\ Len(Visited(n)) = 2
        /\ DeclAt(Visited(n)[1]).nullable = JFalse
        /\ DeclAt(Visited(n)[2]).nullable = JTrue
        /\ Entry(n).nullable = JFalse

\* The positions of all declarations of attribute n, in processing order.
Declared(n) ==
    SelectSeq(DeclPositions(catalog, 1), LAMBDA p : DeclAt(p).name = n)

\* The triples that the declarations at positions ps append, in order.
RECURSIVE AppendedValues(_)
AppendedValues(ps) ==
    IF Len(ps) = 0 THEN <<>>
    ELSE AddDomain(<<>>, DeclAt(Head(ps))) \o AppendedValues(Tail(ps))

\* vals without the entries whose (value, label) pair occurred earlier.
RECURSIVE DistinctByPair(_, _)
DistinctByPair(vals, seenPairs) ==
    IF Len(vals) = 0 THEN <<>>
    ELSE LET pair == <<Head(vals).value, Head(vals).label>>
         IN IF pair \in seenPairs THEN DistinctByPair(Tail(vals), seenPairs)
            ELSE <<Head(vals)>> \o DistinctByPair(Tail(vals), seenPairs \cup {pair})

\* C13 as stated: after the final pass the domainValues of every attribute
\* are the appended triples with one entry per distinct (value, label) pair,
\* in first-occurrence order; entries that differ in value or in label are
\* both kept.
C13_DomainDedupedByPair ==
    (legacyPc = "returned" /\ builds > 0) =>
        \A n \in IndexKeys :
            Entry(n).domainValues = DistinctByPair(AppendedValues(Declared(n)), {})

\* The triple that the stated rule gives for one domain entry: a scalar is
\* its own value and label, an object gives value (or code), label (or the
\* value) and description, anything else gives nothing.
StatedTriple(v) ==
    IF v.t \in {"string", "number"}
    THEN <<[value |-> ToStr(v), label |-> ToStr(v), description |-> ""]>>
    ELSE IF v.t = "object"
    THEN LET val == IF v.value.t \notin {"undefined", "null"} THEN ToStr(v.value)
                    ELSE IF v.code.t \notin {"undefined", "null"} THEN ToStr(v.code)
                    ELSE ""
         IN <<[value |-> val,
               label |-> IF Truthy(v.label) THEN v.label ELSE val,
               description |-> Or(v.description, "")]>>
    ELSE <<>>

RECURSIVE StatedTriples(_)
StatedTriples(dom) ==
    IF Len(dom) = 0 THEN <<>> ELSE StatedTriple(Head(dom)) \o StatedTriples(Tail(dom))

RECURSIVE StatedAppended(_)
StatedAppended(ps) ==
    IF Len(ps) = 0 THEN <<>>
    ELSE (IF DeclAt(Head(ps)).domain.t = "array"
          THEN StatedTriples(DeclAt(Head(ps)).domain.v) ELSE <<>>)
         \o StatedAppended(Tail(ps))

\* C14 as stated: while the index is being built, the domainValues of every
\* attribute are the stated triples of the domain entries of the declarations
\* visited so far, entries of other shapes having been skipped.
C14_EntriesNormalized ==
    legacyPc = "building" =>
        \A n \in IndexKeys : Entry(n).domainValues = StatedAppended(Visited(n))

\* C17: when buildAttributeIndex has run again on the same catalog, the
\* index it leaves is identical to the one the first build left: the same
\* keys in the same order, the same merged scalars, examples and
\* domainValues, and the same datasets and definitions lists.
C17_RebuildIsIdentical ==
    (legacyPc = "returned" /\ builds >= 2) => attributeIndex = firstIndex

\* C17 witness: a second build is over on a catalog in which X is declared
\* twice, with an example and with a domain.
C17_Witness ==
    /\ legacyPc = "returned"
    /\ builds = 2
    /\ HasKey(attributeIndex, "X")
    /\ Len(Entry("X").definitions) = 2
    /\ Len(Entry("X").examples) = 1
    /\ Len(Entry("X").domainValues) = 2
    /\ attributeIndex = firstIndex

\* Two definitions of entry a state different non-empty values of field f.
StatesTwo(a, f) ==
    \E j, k \in 1..Len(a.definitions) :
        /\ Truthy(a.definitions[j][f])
        /\ Truthy(a.definitions[k][f])
        /\ a.definitions[j][f] # a.definitions[k][f]

\* The conflict flags of the panel are the ones its definitions give.
C12_FlagsFromDefinitions ==
    legacyDetail.shown =>
        LET a == Entry(legacyDetail.name)
        IN /\ legacyDetail.hasTypeConflict <=> StatesTwo(a, "type")
           /\ legacyDetail.hasDescConflict <=> StatesTwo(a, "description")
           /\ legacyDetail.conflictHtml <=>
                    (StatesTwo(a, "type") \/ StatesTwo(a, "description"))

\* C12 as stated: whenever the panel shows an attribute, it reports a type
\* conflict exactly when the definitions state more than one distinct
\* non-empty type, and a description conflict exactly when they state more
\* than one distinct non-empty description; this covers the conflict flags,
\* the warning block and the Type line of the panel.
C12_ConflictExactlyWhenDistinct ==
    /\ C12_FlagsFromDefinitions
    /\ legacyDetail.shown =>
            ((legacyDetail.primaryType = "Multiple (conflict - see below)")
                <=> StatesTwo(Entry(legacyDetail.name), "type"))

\* C26 as stated: the Type line of the panel shows the placeholder only
\* when the panel reports a type conflict; with one distinct non-empty type
\* it shows that type, and with none no conflict is indicated.
C26_PlaceholderOnlyOnConflict ==
    legacyDetail.shown =>
        LET types == TypeSet(Entry(legacyDetail.name))
            placeholder == "Multiple (conflict - see below)"
        IN /\ legacyDetail.primaryType = placeholder => legacyDetail.hasTypeConflict
           /\ Cardinality(types) = 1 => legacyDetail.primaryType \in types
           /\ types = {} =>
                    /\ ~legacyDetail.hasTypeConflict
                    /\ legacyDetail.primaryType # placeholder

\* ---------------------------------------------------------------------
\* Properties of the Catalog module
\* ---------------------------------------------------------------------
\* The objects of the cached catalog.
CachedObjects == docs[cache.g].objects

\* How many times the i-th object of the cached catalog is listed for attrId.
TimesListed(attrId, i) ==
    LET listed == GetObjectsForAttribute(attrId)
    IN IF listed.t # "array" THEN 0
       ELSE Cardinality({m \in 1..Len(listed.v) : listed.v[m] = ObjRef(cache.g, i)})

\* C3 as stated: after the build, every object is listed exactly once under
\* every id of its attribute_ids for which the attribute exists.
C3_ListedExactlyOnce ==
    indexesBuilt =>
        \A i \in 1..Len(CachedObjects) :
            \A k \in 1..Len(IdsOf(CachedObjects[i])) :
                LET a == IdsOf(CachedObjects[i])[k]
                IN GetAttributeById(a) # JNull => TimesListed(a, i) = 1

\* C5 as stated: however many calls were made, and whether or not they
\* overlap, the network fetch was performed exactly once.
C5_FetchedExactlyOnce ==
    (\E c \in 1..family.callers : calls[c].pc # "idle") => fetchCount = 1

\* C6 as stated: a response that is not successful never ends in the load
\* completing normally with an empty catalog in place.
C6_FailureReachesCaller ==
    ~(~response.ok /\ legacyPc = "returned" /\ catalog = <<>>)

\* C7 as stated: a body that does not parse, or parses to something that is
\* neither an array nor an object, makes the load fail with nothing cached
\* and no index built.
C7_MalformedIsRejected ==
    \A c \in 1..family.callers :
        calls[c].raw.t \in {"unparseable", "null", "number"} =>
            /\ calls[c].pc = "rejected"
            /\ cache = JNull
            /\ ~indexesBuilt

\* The dataset records of a catalog document in either shape.
DocumentDatasets(raw) ==
    CASE raw.t = "array" -> raw.v
      [] raw.t = "object" /\ raw.objects.t = "array" -> raw.objects.v
      [] raw.t = "object" /\ raw.datasets.t = "array" -> raw.datasets.v
      [] OTHER -> <<>>

\* C8 as stated: a document in either shape loads, and each of its dataset
\* records that has an id is found by the id lookup.
C8_BothShapesServed ==
    \A c \in 1..family.callers :
        (calls[c].raw.t \in {"array", "object"} /\ calls[c].pc # "awaitJson") =>
            /\ calls[c].pc = "returned" \/ calls[c].error = "TypeError: push is not a function"
            /\ calls[c].pc = "returned" =>
                \A i \in 1..Len(DocumentDatasets(calls[c].raw)) :
                    Truthy(DocumentDatasets(calls[c].raw)[i].id) =>
                        GetObjectById(DocumentDatasets(calls[c].raw)[i].id) # JNull

\* The attributes of ids, in order, whose id is a key of the attribute table.
ExistingAttributes(ids) ==
    LET kept == SelectSeq(ids, LAMBDA id : id \in DOMAIN attributeById)
    IN [k \in 1..Len(kept) |-> attributeById[kept[k]]]

\* C10 as stated: for every object of a catalog that loadCatalog returned,
\* the query gives exactly the attributes whose ids are in the attribute
\* table, in attribute_ids order.
C10_OnlyExistingAttributes ==
    \A c \in 1..family.callers :
        calls[c].pc = "returned" =>
            \A i \in 1..Len(docs[calls[c].result.g].objects) :
                GetAttributesForObject(ObjRef(calls[c].result.g, i))
                    = ExistingAttributes(IdsOf(docs[calls[c].result.g].objects[i]))

\* The ids the lookups are called with: an attribute id, an object id, an id
\* no catalog uses, and two ids that name members of Object.prototype.
ProbeIds == {"a", "o1", "zz", "constructor", "toString"}

\* C11 as stated: a lookup of an id that the table does not hold returns
\* null (an empty array for the reverse lookup), at every moment, also before
\* the load and after a failed one.
C11_LookupsTotal ==
    \A id \in ProbeIds :
        /\ id \notin DOMAIN attributeById => GetAttributeById(id) = JNull
        /\ id \notin DOMAIN objectById => GetObjectById(id) = JNull
        /\ id \notin DOMAIN objectsByAttributeId =>
                GetObjectsForAttribute(id) = JArray(<<>>)


\* C18 as stated: a document that was fetched and parsed and is an object
\* (the accepted top-level shape) never makes loadCatalog fail, whatever its
\* records hold.
C18_BuildNeverRaises ==
    \A c \in 1..family.callers :
        calls[c].raw.t = "object" => calls[c].pc # "rejected"

\* The strings of the examples that the visited declarations of n state.
DeclaredSet(n) == {Declared(n)[k] : k \in 1..Len(Declared(n))}

StatedExamples(n) ==
    {ToStr(DeclAt(p).example) :
        p \in {q \in DeclaredSet(n) : DeclAt(q).example.t \notin {"undefined", "null"}}}

\* C22: after a build the examples of every attribute are exactly the
\* distinct String(example) of its declarations that state an example (one
\* that is neither undefined nor null), each held once.
C22_ExamplesDistinctStrings ==
    (legacyPc = "returned" /\ builds > 0) =>
        \A n \in IndexKeys :
            /\ {Entry(n).examples[k] : k \in 1..Len(Entry(n).examples)}
                    = StatedExamples(n)
            /\ Len(Entry(n).examples) = Cardinality(StatedExamples(n))

\* A built entry whose two declarations state the number 1 and the string
\* "1": one example, the string "1", is held.
C22_Witness ==
    /\ legacyPc = "returned" /\ builds > 0
    /\ \E n \in IndexKeys :
            /\ \E p, q \in DeclaredSet(n) :
                    /\ DeclAt(p).example = [t |-> "number", v |-> "1"]
                    /\ DeclAt(q).example = Str("1")
            /\ Entry(n).examples = <<"1">>

\* The index that the declarations at positions ps build, in order.
RECURSIVE IndexOver(_)
IndexOver(ps) ==
    IF Len(ps) = 0 THEN <<>>
    ELSE LET p == ps[Len(ps)]
         IN MergeDeclaration(IndexOver(SubSeq(ps, 1, Len(ps) - 1)),
                             catalog[p.d], DeclAt(p))

\* The declarations with a name that the loops have passed.
PassedNamed ==
    SelectSeq(DeclPositions(catalog, 1),
              LAMBDA p : /\ p.d < di \/ (p.d = di /\ p.a < ai)
                         /\ Truthy(DeclAt(p).name))

\* C23: a declaration without a name is skipped.  No entry has an empty
\* name, and the index is at every moment the one that the named
\* declarations passed so far build on their own, in their order: the
\* nameless declaration adds nothing to any entry, and every declaration
\* after it, of the same dataset and of later ones, is indexed.
C23_NamelessSkipped ==
    /\ \A k \in 1..Len(attributeIndex) : Truthy(attributeIndex[k].name)
    /\ legacyPc = "building" => attributeIndex = IndexOver(PassedNamed)
    /\ legacyPc = "returned" =>
            attributeIndex =
                [k \in 1..Len(IndexOver(PassedNamed)) |->
                    FinalizeEntry(IndexOver(PassedNamed)[k])]

\* A built index over a dataset that declares a nameless attribute and then
\* a named one: the named one is the only entry.
C23_Witness ==
    /\ legacyPc = "returned" /\ builds > 0
    /\ Len(catalog) > 0
    /\ Len(AttrsOf(catalog[1])) = 2
    /\ ~Truthy(AttrsOf(catalog[1])[1].name)
    /\ Truthy(AttrsOf(catalog[1])[2].name)
    /\ Len(attributeIndex) = 1
    /\ attributeIndex[1].name = AttrsOf(catalog[1])[2].name
    /\ Len(attributeIndex[1].datasets) = 1

\* One reference to the i-th and every later cached object for each time
\* its attribute_ids lists attrId, in catalog order.
RECURSIVE Listings(_, _)
Listings(attrId, i) ==
    IF i > Len(CachedObjects) THEN <<>>
    ELSE LET hits == SelectSeq(IdsOf(CachedObjects[i]), LAMBDA id : id = attrId)
         IN [k \in 1..Len(hits) |-> ObjRef(cache.g, i)] \o Listings(attrId, i + 1)

\* C24: after the build the id table maps an id that several records carry
\* to the last of them, and the reverse index lists a record once for every
\* time it references the attribute id, duplicates included.
C24_LastIdWinsReverseKeepsAll ==
    indexesBuilt =>
        /\ \A i \in 1..Len(CachedObjects) :
                Truthy(CachedObjects[i].id) =>
                    LET same == {m \in 1..Len(CachedObjects) :
                                    CachedObjects[m].id = CachedObjects[i].id}
                    IN GetObjectById(CachedObjects[i].id)
                        = ObjRef(cache.g, CHOOSE m \in same : \A n \in same : n <= m)
        /\ \A a \in RefIds \ ObjectPrototypeKeys :
                GetObjectsForAttribute(a) = JArray(Listings(a, 1))

\* Two records with the same id that both reference attribute "a".
C24_Witness ==
    /\ indexesBuilt
    /\ Len(CachedObjects) = 2
    /\ Truthy(CachedObjects[1].id)
    /\ CachedObjects[1].id = CachedObjects[2].id
    /\ IdsOf(CachedObjects[1]) = <<"a">>
    /\ IdsOf(CachedObjects[2]) = <<"a">>
    /\ GetObjectById(CachedObjects[1].id) = ObjRef(cache.g, 2)
    /\ GetObjectsForAttribute("a") = JArray(<<ObjRef(cache.g, 1), ObjRef(cache.g, 2)>>)

\* C25 as stated: once a call has returned the cached catalog, whatever the
\* interleaving of the calls, every record that getObjectById gives is a
\* record of that catalog's objects and every record that getAttributeById
\* gives is a record of its attributes.
C25_IndexesAgreeWithCache ==
    (\E c \in 1..family.callers : calls[c].pc = "returned" /\ calls[c].result = cache) =>
        /\ \A id \in DOMAIN objectById :
                \E i \in 1..Len(docs[cache.g].objects) :
                    GetObjectById(id) = ObjRef(cache.g, i)
        /\ \A id \in DOMAIN attributeById :
                \E j \in 1..Len(docs[cache.g].attributes) :
                    GetAttributeById(id) = AttrRef(cache.g, j)

\* The collections of a parsed object document are normalized as stated.
C21_NormalizedAsStated ==
    \A c \in 1..family.callers :
        calls[c].raw.t = "object" =>
            /\ docs[c].objects =
                    IF calls[c].raw.objects.t = "array" THEN calls[c].raw.objects.v
                    ELSE IF calls[c].raw.datasets.t = "array" THEN calls[c].raw.datasets.v
                    ELSE <<>>
            /\ docs[c].attributes =
                    IF calls[c].raw.attributes.t = "array" THEN calls[c].raw.attributes.v
                    ELSE <<>>

\* C21 as stated: a parsed document that lacks the attributes key, or both
\* the objects and the datasets key, loads successfully, the missing
\* collection being empty and the objects being the document's objects, or
\* else its datasets.
C21_MissingKeysLoadEmpty ==
    /\ C21_NormalizedAsStated
    /\ \A c \in 1..family.callers :
            (/\ calls[c].raw.t = "object"
             /\ \/ calls[c].raw.attributes.t = "undefined"
                \/ (calls[c].raw.objects.t = "undefined"
                        /\ calls[c].raw.datasets.t = "undefined"))
                => calls[c].pc = "returned"

\* ---------------------------------------------------------------------
\* Properties of the page
\* ---------------------------------------------------------------------
\* Structural equality of two members named f: strings by value, arrays
\* element by element, objects by their members whatever the order of keys.
DeepEqual(f, a, b) ==
    IF f \in StringFields THEN a = b
    ELSE IF a.t # b.t THEN FALSE
    ELSE IF a.t # "array" THEN TRUE
    ELSE /\ Len(a.v) = Len(b.v)
         /\ \A k \in 1..Len(a.v) :
                IF f = "values"
                THEN /\ {a.v[k].keys[m] : m \in 1..Len(a.v[k].keys)}
                            = {b.v[k].keys[m] : m \in 1..Len(b.v[k].keys)}
                     /\ a.v[k].code = b.v[k].code
                     /\ a.v[k].label = b.v[k].label
                ELSE a.v[k] = b.v[k]

\* A member that is present and is a blank string, an empty array or null.
EmptyValue(f, v) ==
    IF f \in StringFields THEN v # Undefined /\ Trim(v) = ""
    ELSE v.t = "null" \/ (v.t = "array" /\ Len(v.v) = 0)

\* The catalog record that an issue is about.
IssueRecord ==
    IF issue.kind = "objectEdit" THEN Deref(GetObjectById(issue.id))
    ELSE Deref(GetAttributeById(issue.id))

\* C16: in the issue of a submitted edit both sides are compacted: neither
\* side holds a member that is a blank string, an empty array or null; a
\* member that the catalog record lacks or holds empty is absent from the
\* original; and a member absent from both sides, whether the draft cleared
\* it or never had it, has no change record.
C16_CompactedBeforeDiff ==
    issue.kind \in {"objectEdit", "attributeEdit"} =>
        LET fields == IF issue.kind = "objectEdit" THEN ObjectFields ELSE AttributeFields
        IN \A i \in 1..Len(fields) :
            LET f == fields[i]
            IN /\ ~EmptyValue(f, issue.original[f])
               /\ ~EmptyValue(f, issue.updated[f])
               /\ (Absent(f, IssueRecord[f]) \/ EmptyValue(f, IssueRecord[f]))
                        => Absent(f, issue.original[f])
               /\ (Absent(f, issue.original[f]) /\ Absent(f, issue.updated[f]))
                        => \A k \in 1..Len(issue.changes) : issue.changes[k].key # f

\* C16 witness: an edit of attribute a, whose values are an empty array in
\* the catalog, was submitted with the values input left empty and a new
\* label: the issue lists the label and has no record for values.
C16_Witness ==
    /\ issue.kind = "attributeEdit"
    /\ issue.id = "a"
    /\ EmptyValue("values", Deref(GetAttributeById("a")).values)
    /\ Absent("values", issue.original.values)
    /\ Absent("values", issue.updated.values)
    /\ Len(issue.changes) = 1
    /\ issue.changes[1].key = "label"

\* After a failed load the page shows the error text in place of the lists
\* and no detail panel.
C19_StaticErrorState ==
    calls[1].pc = "rejected" =>
        /\ handler \in {"waiting", "error"}
        /\ lists.objects = <<>>
        /\ lists.attributes = <<>>
        /\ handler = "error" => lists.text = "Error loading catalog."
        /\ panel = [objectDetail |-> NoPanel, attributeDetail |-> NoPanel]
        /\ issue = NoIssue

\* Once the load has failed no step issues a fetch or leaves the failure.
C19_NoFetchStep ==
    calls[1].pc = "rejected" =>
        /\ fetchCount' = fetchCount
        /\ calls' = calls
        /\ handler = "error" => handler' = "error"

\* C19: after a failed initial load the startup handler shows the static
\* error state and stops: no list is rendered, no detail view is shown, and
\* no further fetch is ever issued (no automatic retry).
C19_NoRetryAfterFailure == [](C19_StaticErrorState) /\ [][C19_NoFetchStep]_vars

\* C19 witness: the load failed, the handler has shown the error state, and
\* the user has since switched to the attributes tab.
C19_Witness ==
    /\ calls[1].pc = "rejected"
    /\ handler = "error"
    /\ fetchCount = 1
    /\ lists.text = "Error loading catalog."
    /\ tab = "attributes"

\* The texts of an object that the stated filter searches: id, title, topics
\* and keywords (the records of the model have no description).
StatedObjectHaystack(obj) ==
    {v \in {obj.id, obj.title} : Truthy(v)}
        \cup (IF obj.topics.t = "array"
              THEN {obj.topics.v[k] : k \in 1..Len(obj.topics.v)} ELSE {})
        \cup (IF obj.keywords.t = "array"
              THEN {obj.keywords.v[k] : k \in 1..Len(obj.keywords.v)} ELSE {})

\* The texts of an attribute that the stated filter searches: id and label
\* (the records of the model have no type, description or examples).
StatedAttributeHaystack(attr) == {v \in {attr.id, attr.label} : Truthy(v)}

\* The objects that the stated filter returns for query q, in catalog order.
StatedObjects(q) ==
    LET ft == ToLowerCase(Trim(q))
    IN IF ft = "" THEN RefsOf("objects")
       ELSE SelectSeq(RefsOf("objects"), LAMBDA r :
                \E part \in StatedObjectHaystack(Deref(r)) : Includes(ToLowerCase(part), ft))

StatedAttributes(q) ==
    LET ft == ToLowerCase(Trim(q))
    IN IF ft = "" THEN RefsOf("attributes")
       ELSE SelectSeq(RefsOf("attributes"), LAMBDA r :
                \E part \in StatedAttributeHaystack(Deref(r)) :
                    Includes(ToLowerCase(part), ft))

\* A step that filters a list leaves in it the entities the stated filter gives.
C20_FilterStep ==
    \A q \in FilterTexts :
        /\ FilterObjects(q) => lists'.objects = StatedObjects(q)
        /\ FilterAttributes(q) => lists'.attributes = StatedAttributes(q)

\* C20 as stated: typing a query into a search box leaves in the list exactly
\* the entities whose searchable text (for an object: id, title, description,
\* topics and keywords) contains the query without regard to case, all of
\* them for an empty query, in catalog order.
C20_FilterIsStated == [][C20_FilterStep]_vars

\* C15 as stated: the changes of a submitted edit hold exactly one record for
\* every member whose two values are not structurally equal and none for a
\* member whose values are structurally equal, and each record's from and to
\* are the two sides' values.
C15_ChangesAreDeepDifferences ==
    issue.kind \in {"objectEdit", "attributeEdit"} =>
        LET fields == IF issue.kind = "objectEdit" THEN ObjectFields ELSE AttributeFields
        IN \A i \in 1..Len(fields) :
            LET f == fields[i]
                recs == {k \in 1..Len(issue.changes) : issue.changes[k].key = f}
            IN /\ Cardinality(recs) =
                    IF DeepEqual(f, issue.original[f], issue.updated[f]) THEN 0 ELSE 1
               /\ \A k \in recs :
                    /\ Stringify(f, issue.changes[k].from) = Stringify(f, issue.original[f])
                    /\ Stringify(f, issue.changes[k].to) = Stringify(f, issue.updated[f])

\* An input event on the name, database object name or description field
\* of the new-object form.
NameFieldEdited ==
    \/ \E text \in NameTexts : InputNameField("title", text)
    \/ \E text \in ObjnameTexts : InputNameField("objname", text)
    \/ \E text \in DescriptionTexts : InputNameField("description", text)

\* An edit of a name field that changes the id field writes the suggested
\* slug, and happens only when the trimmed id is empty or is the last
\* suggestion, never after the user typed another id.
C27_TrimmedStep ==
    (NameFieldEdited /\ panel'.objectDetail.id # panel.objectDetail.id) =>
        LET form == panel.objectDetail
        IN /\ ~form.manual
           /\ Trim(form.id) = "" \/ Trim(form.id) = form.suggested
           /\ panel'.objectDetail.id =
                SuggestObjectIdFromDraft(panel'.objectDetail.title,
                    panel'.objectDetail.objname, panel'.objectDetail.description)

\* C27, with the id compared after trimming: an edit of the name, database
\* object name or description replaces the id field with the suggested slug
\* only while the trimmed id is empty or equals the last suggestion; once
\* the user has typed an id whose trimmed text is neither, no later edit of
\* those fields changes the id field until the user empties it (or leaves
\* only white space in it).
C27_ManualIdIsKept == [][C27_TrimmedStep]_vars

C27_ExactStep ==
    (NameFieldEdited /\ panel'.objectDetail.id # panel.objectDetail.id) =>
        LET form == panel.objectDetail
        IN /\ ~form.manualExact
           /\ form.id = "" \/ form.id = form.suggested

\* C27 as stated: the id field is replaced only while it is empty or equals
\* the last suggestion, and once the user has typed an id that differs from
\* the last suggestion no edit of the name fields changes it until the user
\* empties it.
C27_TypedIdIsKept == [][C27_ExactStep]_vars

\* C27 witness: the user typed the id my_id, then the name Parks: the id
\* field still holds my_id and the slug of the name was never written.
C27_Witness ==
    /\ panel.objectDetail.view = "newObject"
    /\ panel.objectDetail.manual
    /\ panel.objectDetail.id = "my_id"
    /\ panel.objectDetail.title = "Parks"
    /\ panel.objectDetail.suggested # "parks"

\* The ids of a sequence, each at its first place.
RECURSIVE Distinct(_)
Distinct(ids) ==
    IF Len(ids) = 0 THEN <<>>
    ELSE LET rest == Distinct(SubSeq(ids, 1, Len(ids) - 1))
         IN IF \E k \in 1..Len(rest) : rest[k] = ids[Len(ids)] THEN rest
            ELSE Append(rest, ids[Len(ids)])

\* The conditions that the claim puts on a submit of the new-object form.
StatedValid(form, proceed, cards) ==
    /\ Trim(form.id) # ""
    /\ ToLowerCase(Trim(form.id)) \in form.existingObjectIds => proceed
    /\ \A k \in 1..Len(cards) :
            /\ Trim(cards[k].id) # ""
            /\ Trim(cards[k].id) \notin DOMAIN attributeById
            /\ Trim(cards[k].type) = "enumerated" =>
                    \/ Trim(cards[k].values_json) = ""
                    \/ TryParseJson(Trim(cards[k].values_json)).t = "array"

\* The same conditions, a text that parses to a falsy value being let through.
StatedValidOrFalsy(form, proceed, cards) ==
    /\ Trim(form.id) # ""
    /\ ToLowerCase(Trim(form.id)) \in form.existingObjectIds => proceed
    /\ \A k \in 1..Len(cards) :
            /\ Trim(cards[k].id) # ""
            /\ Trim(cards[k].id) \notin DOMAIN attributeById
            /\ Trim(cards[k].type) = "enumerated" =>
                    \/ Trim(cards[k].values_json) = ""
                    \/ TryParseJson(Trim(cards[k].values_json)).t = "array"
                    \/ Falsy(TryParseJson(Trim(cards[k].values_json)))

\* The attribute_ids of an opened issue are the selected ids followed by the
\* new ids, without duplicates (absent when there is none).
IssueIdsAsStated(form, cards) ==
    LET ids == Distinct(form.attribute_ids \o [k \in 1..Len(cards) |-> Trim(cards[k].id)])
    IN issue'.object.attribute_ids = IF Len(ids) = 0 THEN JUndefined ELSE JArray(ids)

C28_SubmitStep ==
    \A proceed \in BOOLEAN, cards \in CardSeqs :
        SubmitNewObject(proceed, cards) =>
            /\ ~StatedValid(panel.objectDetail, proceed, cards) =>
                    /\ issue' = issue
                    /\ panel'.objectDetail.view = "newObject"
            /\ issue' # issue => IssueIdsAsStated(panel.objectDetail, cards)

\* C28 as stated: a submit of the new-object form opens an issue only if the
\* id is non-empty, an id that exists was confirmed, every new-attribute
\* draft has a non-empty id that the catalog does not hold, and every
\* enumerated draft has allowed-values text that is empty or parses to an
\* array; otherwise no issue is opened and the form stays.  The
\* attribute_ids of an opened issue are the selected existing ids followed
\* by the new ids, without duplicates.
C28_IssueOnlyWhenValid == [][C28_SubmitStep]_vars

C28_SubmitStepOrFalsy ==
    \A proceed \in BOOLEAN, cards \in CardSeqs :
        SubmitNewObject(proceed, cards) =>
            /\ ~StatedValidOrFalsy(panel.objectDetail, proceed, cards) =>
                    /\ issue' = issue
                    /\ panel'.objectDetail.view = "newObject"
            /\ issue' # issue => IssueIdsAsStated(panel.objectDetail, cards)

\* What the submit does: as stated, but allowed-values text that parses to
\* 0, null, false or the empty string is let through as no values.
C28_IssueWhenValidOrFalsy == [][C28_SubmitStepOrFalsy]_vars

\* The selection of the new-object form has no duplicate and holds only ids
\* for which getAttributeById gives an attribute record.
C29_SelectionState ==
    panel.objectDetail.view = "newObject" =>
        LET ids == panel.objectDetail.attribute_ids
        IN /\ \A j, k \in 1..Len(ids) : ids[j] = ids[k] => j = k
           /\ \A k \in 1..Len(ids) :
                /\ GetAttributeById(ids[k]) # JNull
                /\ GetAttributeById(ids[k]).t = "ref"
                /\ GetAttributeById(ids[k]).k = "attributes"

\* Adding an id that no attribute of the catalog has, or one that is
\* already selected, leaves the selection as it is.
C29_AddStep ==
    \A rawText \in AttributeSearchTexts :
        (/\ AddExistingAttribute(rawText)
         /\ \/ \A j \in 1..Len(AllAttributes) : AllAttributes[j].id # Trim(rawText)
            \/ \E k \in 1..Len(panel.objectDetail.attribute_ids) :
                    panel.objectDetail.attribute_ids[k] = Trim(rawText))
            => panel'.objectDetail.attribute_ids = panel.objectDetail.attribute_ids

\* C29 as stated: in the new-object form opened without prefill, after any
\* sequence of add-existing-attribute and remove-chip actions the selected
\* attribute_ids hold no duplicate and only ids for which getAttributeById
\* returns an attribute, and adding an unknown or already selected id
\* leaves the selection unchanged.
C29_SelectionKnownAndDistinct == [](C29_SelectionState) /\ [][C29_AddStep]_vars

\* A submit of the attribute edit form with allowed-values text that does
\* not parse leaves the issue and the form as they are; any other submit
\* yields the issue of the compacted original, the compacted draft and their
\* diff, and shows the attribute detail.
C30_SubmitStep ==
    \A label \in LabelTexts, valuesText \in JsonTexts :
        SubmitAttributeEdit(label, valuesText) =>
            LET form == panel.attributeDetail
                parsed == TryParseJson(valuesText)
            IN IF parsed.t = "parse_error"
               THEN /\ issue' = issue
                    /\ panel'.attributeDetail.view = "attributeEdit"
                    /\ panel'.attributeDetail.id = form.id
               ELSE /\ issue'.kind = "attributeEdit"
                    /\ issue'.id = form.id
                    /\ issue'.original = CompactObject(Read(form.original))
                    /\ issue'.updated.id = Read(form.draft).id
                    /\ issue'.updated.label =
                            (IF Trim(label) = "" THEN Undefined ELSE Trim(label))
                    /\ issue'.updated.values =
                            (IF parsed.t = "array" /\ Len(parsed.v) > 0 THEN parsed
                             ELSE JUndefined)
                    /\ issue'.changes =
                            ComputeChanges(issue'.original, issue'.updated, AttributeFields)
                    /\ panel'.attributeDetail = RenderAttributeDetail(form.id)

C9_IssueFromCatalogRecord ==
    /\ issue.kind = "objectEdit" =>
            issue.original = CompactObject(Deref(GetObjectById(issue.id)))
    /\ issue.kind = "attributeEdit" =>
            issue.original = CompactObject(Deref(GetAttributeById(issue.id)))

\* Once the indexes are built a step changes neither the catalog records nor
\* the cache nor the index tables.
C9_FrameStep ==
    indexesBuilt => UNCHANGED <<docs, cache, indexVars>>

\* C9: after the one-time index build no operation of the page (filtering,
\* detail rendering, tab switching, opening, submitting or cancelling an edit
\* form, submitting a new object or attribute) changes the cached catalog
\* records or the id and reverse indexes; a submitted edit only yields an
\* issue whose original is the unchanged catalog record.
C9_CatalogUntouchedByPage == [](C9_IssueFromCatalogRecord) /\ [][C9_FrameStep]_vars

\* C9 witness: an edit of object o1 was submitted with a new title, the
\* issue lists the change, and the catalog record still has the old title.
C9_Witness ==
    /\ indexesBuilt
    /\ issue.kind = "objectEdit"
    /\ issue.id = "o1"
    /\ Len(issue.changes) > 0
    /\ issue.updated.title = "Trails"
    /\ Deref(GetObjectById("o1")).title = "Parks"

====
